---------------------------- MODULE Spec2Model ----------------------------
(***************************************************************************)
(* The compiler middle-end and back ends of MetalWarp: the type-inference  *)
(* pass and call-site refinement of BaseCodeGenerator (codegen_base.py),   *)
(* the shared emitter, and the drivers of CCodeGenerator (codegen_c.py)    *)
(* and MetalCodeGenerator (codegen_metal.py).                              *)
(*                                                                         *)
(* A compilation is one run of generate(tree).  The recursive walks of the *)
(* source (_infer_stmt_types, _gen_stmt, ...) are modelled by an explicit  *)
(* stack of pending work, `todo`: one action is one invocation of the      *)
(* handler on one node, and what the handler does after its recursive      *)
(* calls return is a work item of its own pushed below the children.       *)
(*                                                                         *)
(* The tree-walk interpreter (pymetal/interpreter.py) that entry.py runs   *)
(* on the same tree under --emit run is modelled the same way: one action  *)
(* is one invocation of Interpreter._exec on one statement.                *)
(***************************************************************************)
EXTENDS Integers, Sequences, FiniteSets, TLC

VARIABLES
    backend,            \* the class of self: "base" (BaseCodeGenerator), "c" (CCodeGenerator)
                        \* or "metal" (MetalCodeGenerator); "run" for the Interpreter
    tree,               \* the ast.Module handed to generate()
    pc,                 \* position in generate(): "infer" (_infer_types), "refine"
                        \* (_refine_param_types), "inferred" (both have returned), "emit",
                        \* "done" (the text is returned), "error" (ValueError was raised)
    todo,               \* pending work of the pass in progress (its call stack)
    global_types,       \* self.global_types
    func_param_types,   \* self.func_param_types
    func_return_types,  \* self.func_return_types
    func_local_types,   \* self.func_local_types
    _current_func,      \* self._current_func
    _declared_vars,     \* self._declared_vars
    lines,              \* self.lines
    indent,             \* self.indent
    _needs_math,        \* CCodeGenerator._needs_math
    envs,               \* the Environment objects of the Interpreter, in order of
                        \* creation; envs[1] is self.global_env
    stdout,             \* the lines the interpreted program has printed
    exception           \* the exception that left Interpreter.run, "none" if none

vars == <<backend, tree, pc, todo, global_types, func_param_types,
          func_return_types, func_local_types, _current_func,
          _declared_vars, lines, indent, _needs_math, envs, stdout, exception>>

interp == <<envs, stdout, exception>>

tables == <<global_types, func_param_types, func_return_types, func_local_types>>

-----------------------------------------------------------------------------
(* The AST (Python's ast module): a node is a record whose field k is the  *)
(* node class; the other fields are the class's _fields that the compiler  *)
(* reads.  A float constant holds its value in hundredths (125 is 1.25),   *)
(* an int constant its value, a bool constant 0 or 1.                      *)

None == [k |-> "None"]

Constant(kind, value) == [k |-> "Constant", kind |-> kind, value |-> value]
IntC(n) == Constant("int", n)
FloatC(h) == Constant("float", h)
Name(id) == [k |-> "Name", id |-> id]
BinOp(left, op, right) == [k |-> "BinOp", left |-> left, op |-> op, right |-> right]
UnaryOp(op, operand) == [k |-> "UnaryOp", op |-> op, operand |-> operand]
Compare(left, ops, comparators) ==
    [k |-> "Compare", left |-> left, ops |-> ops, comparators |-> comparators]
BoolOp(op, values) == [k |-> "BoolOp", op |-> op, values |-> values]
IfExp(test, body, orelse) == [k |-> "IfExp", test |-> test, body |-> body, orelse |-> orelse]
Call(func, args) == [k |-> "Call", func |-> func, args |-> args]
Subscript(value, slice) == [k |-> "Subscript", value |-> value, slice |-> slice]

arg(name, annotation) == [k |-> "arg", arg |-> name, annotation |-> annotation]
arguments(args) == [k |-> "arguments", args |-> args]

Assign(targets, value) == [k |-> "Assign", targets |-> targets, value |-> value]
AugAssign(target, op, value) == [k |-> "AugAssign", target |-> target, op |-> op, value |-> value]
ExprStmt(value) == [k |-> "Expr", value |-> value]
If(test, body, orelse) == [k |-> "If", test |-> test, body |-> body, orelse |-> orelse]
While(test, body) == [k |-> "While", test |-> test, body |-> body]
For(target, iter, body) == [k |-> "For", target |-> target, iter |-> iter, body |-> body]
Tuple(elts) == [k |-> "Tuple", elts |-> elts]
FunctionDef(name, args, body) == [k |-> "FunctionDef", name |-> name, args |-> args, body |-> body]
Return(value) == [k |-> "Return", value |-> value]
Pass == [k |-> "Pass"]
Break == [k |-> "Break"]
Continue == [k |-> "Continue"]

isinstance(node, class) == node.k = class

-----------------------------------------------------------------------------
(* Python dicts.  A dict whose order is never observed is a function on    *)
(* its key set; func_param_types[f], whose key order _refine_param_types   *)
(* and the signatures read, is a sequence of [key, val] in insertion order.*)

EmptyDict == [x \in {} |-> ""]
DictSet(d, key, val) == [x \in DOMAIN d \cup {key} |-> IF x = key THEN val ELSE d[x]]
DictGet(d, key, default) == IF key \in DOMAIN d THEN d[key] ELSE default

OKeys(od) == [i \in 1..Len(od) |-> od[i].key]
OHas(od, key) == \E i \in 1..Len(od) : od[i].key = key
OGet(od, key, default) ==
    IF OHas(od, key) THEN od[CHOOSE i \in 1..Len(od) : od[i].key = key].val ELSE default
OSet(od, key, val) ==
    IF OHas(od, key)
        THEN [i \in 1..Len(od) |-> IF od[i].key = key THEN [key |-> key, val |-> val] ELSE od[i]]
        ELSE Append(od, [key |-> key, val |-> val])

RECURSIVE Concat(_)
Concat(seqs) == IF seqs = <<>> THEN <<>> ELSE Head(seqs) \o Concat(Tail(seqs))

SeqToSet(s) == {s[i] : i \in 1..Len(s)}

-----------------------------------------------------------------------------
(* Type spellings: the class attributes INT and DOUBLE of the back end.    *)

NoFunc == "<None>"      \* self._current_func = None

INT == IF backend = "c" THEN "long long" ELSE "int"
DOUBLE == IF backend = "metal" THEN "float" ELSE "double"

\* _type_of_var with self._current_func = cur.
TypeOfVarIn(cur, name) ==
    LET ft == DictGet(func_param_types, cur, <<>>)
        lt == DictGet(func_local_types, cur, EmptyDict)
    IN  IF cur # NoFunc /\ OHas(ft, name) THEN OGet(ft, name, INT)
        ELSE IF cur # NoFunc /\ name \in DOMAIN lt THEN lt[name]
        ELSE DictGet(global_types, name, INT)

_type_of_var(name) == TypeOfVarIn(_current_func, name)

\* The two tables _set_var_type writes, after self._set_var_type(name, typ)
\* on tables tb = [l |-> func_local_types, g |-> global_types].
_set_var_type(tb, name, typ) ==
    IF _current_func # NoFunc
        THEN [tb EXCEPT !.l = DictSet(tb.l, _current_func,
                                DictSet(DictGet(tb.l, _current_func, EmptyDict), name, typ))]
        ELSE [tb EXCEPT !.g = DictSet(tb.g, name, typ)]

\* Mutant: the merge keeps the newer type instead of the join.
MergeTypesOverwrite(a, b) == b

_merge_types(a, b) == IF a = DOUBLE \/ b = DOUBLE THEN DOUBLE ELSE INT

BinOpTypeJoin(op, lt, rt) == _merge_types(lt, rt)

\* The type of a binary operation from its operator and its operands' types.
BinOpType(op, lt, rt) ==
    IF op = "Div" THEN DOUBLE
    ELSE IF op = "FloorDiv" THEN INT
    ELSE _merge_types(lt, rt)

RECURSIVE InferExprTypeIn(_, _)
\* _infer_expr_type with self._current_func = cur.
InferExprTypeIn(cur, node) ==
    CASE isinstance(node, "Constant") ->
            IF node.kind = "float" THEN DOUBLE ELSE INT
      [] isinstance(node, "Name") -> TypeOfVarIn(cur, node.id)
      [] isinstance(node, "BinOp") ->
            BinOpType(node.op, InferExprTypeIn(cur, node.left),
                               InferExprTypeIn(cur, node.right))
      [] isinstance(node, "UnaryOp") -> InferExprTypeIn(cur, node.operand)
      [] isinstance(node, "IfExp") ->
            _merge_types(InferExprTypeIn(cur, node.body), InferExprTypeIn(cur, node.orelse))
      [] isinstance(node, "Compare") \/ isinstance(node, "BoolOp") -> INT
      [] isinstance(node, "Call") ->
            IF isinstance(node.func, "Name") /\ node.func.id \in DOMAIN func_return_types
                THEN func_return_types[node.func.id]
                ELSE INT
      [] isinstance(node, "Subscript") ->
            IF isinstance(node.value, "Name") THEN TypeOfVarIn(cur, node.value.id) ELSE INT
      [] OTHER -> INT

_infer_expr_type(node) == InferExprTypeIn(_current_func, node)

RECURSIVE _infer_return_type(_)
_infer_return_type(body) ==
    IF body = <<>> THEN INT
    ELSE LET node == Head(body)
             here ==
                CASE isinstance(node, "Return") /\ node.value # None ->
                        _infer_expr_type(node.value)
                  [] isinstance(node, "If") ->
                        _merge_types(_infer_return_type(node.body),
                                     _infer_return_type(node.orelse))
                  [] isinstance(node, "While") \/ isinstance(node, "For") ->
                        _infer_return_type(node.body)
                  [] OTHER -> INT
         IN  _merge_types(here, _infer_return_type(Tail(body)))

-----------------------------------------------------------------------------
(* _infer_types / _infer_stmt_types: the statement pass.                   *)

InferItem(node) == [op |-> "infer", node |-> node]
InferItems(body) == [i \in 1..Len(body) |-> InferItem(body[i])]

AtInfer(class) ==
    /\ pc = "infer"
    /\ todo # <<>>
    /\ Head(todo).op = "infer"
    /\ isinstance(Head(todo).node, class)

RECURSIVE SetAll(_, _, _)
\* for target in node.targets: if isinstance(target, ast.Name): _set_var_type(...)
SetAll(tb, targets, typ) ==
    IF targets = <<>> THEN tb
    ELSE SetAll(IF isinstance(Head(targets), "Name")
                    THEN _set_var_type(tb, Head(targets).id, typ) ELSE tb,
                Tail(targets), typ)

TypeTables == [l |-> func_local_types, g |-> global_types]

InferAssign ==
    /\ AtInfer("Assign")
    /\ LET node == Head(todo).node
           tb == SetAll(TypeTables, node.targets, _infer_expr_type(node.value))
       IN  /\ func_local_types' = tb.l
           /\ global_types' = tb.g
    /\ todo' = Tail(todo)
    /\ UNCHANGED <<interp, backend, tree, pc, func_param_types, func_return_types,
                   _current_func, _declared_vars, lines, indent, _needs_math>>

InferAugAssign ==
    /\ AtInfer("AugAssign")
    /\ LET node == Head(todo).node
           tb == IF isinstance(node.target, "Name")
                    THEN _set_var_type(TypeTables, node.target.id,
                            _merge_types(_type_of_var(node.target.id),
                                         _infer_expr_type(node.value)))
                    ELSE TypeTables
       IN  /\ func_local_types' = tb.l
           /\ global_types' = tb.g
    /\ todo' = Tail(todo)
    /\ UNCHANGED <<interp, backend, tree, pc, func_param_types, func_return_types,
                   _current_func, _declared_vars, lines, indent, _needs_math>>

\* {a.arg: self.INT for a in node.args.args}
SeedParams(args) ==
    LET RECURSIVE Seed(_, _)
        Seed(as, od) == IF as = <<>> THEN od ELSE Seed(Tail(as), OSet(od, Head(as).arg, INT))
    IN  Seed(args, <<>>)

InferFunctionDef ==
    /\ AtInfer("FunctionDef")
    /\ LET node == Head(todo).node
       IN  /\ _current_func' = node.name
           /\ func_param_types' = DictSet(func_param_types, node.name, SeedParams(node.args.args))
           /\ func_local_types' = DictSet(func_local_types, node.name, EmptyDict)
           /\ todo' = InferItems(node.body)
                        \o <<[op |-> "infer_return", node |-> node, old_func |-> _current_func]>>
                        \o Tail(todo)
    /\ UNCHANGED <<interp, backend, tree, pc, global_types, func_return_types,
                   _declared_vars, lines, indent, _needs_math>>

\* The tail of the FunctionDef branch, after the body's statements.
InferFunctionDefReturn ==
    /\ pc = "infer"
    /\ todo # <<>>
    /\ Head(todo).op = "infer_return"
    /\ LET node == Head(todo).node
       IN  func_return_types' =
               DictSet(func_return_types, node.name, _infer_return_type(node.body))
    /\ _current_func' = Head(todo).old_func
    /\ todo' = Tail(todo)
    /\ UNCHANGED <<interp, backend, tree, pc, global_types, func_param_types, func_local_types,
                   _declared_vars, lines, indent, _needs_math>>

InferIf ==
    /\ AtInfer("If")
    /\ LET node == Head(todo).node
       IN  todo' = InferItems(node.body \o node.orelse) \o Tail(todo)
    /\ UNCHANGED <<interp, backend, tree, pc, tables, _current_func, _declared_vars,
                   lines, indent, _needs_math>>

InferWhile ==
    /\ AtInfer("While")
    /\ todo' = InferItems(Head(todo).node.body) \o Tail(todo)
    /\ UNCHANGED <<interp, backend, tree, pc, tables, _current_func, _declared_vars,
                   lines, indent, _needs_math>>

InferFor ==
    /\ AtInfer("For")
    /\ LET node == Head(todo).node
           tb == IF isinstance(node.target, "Name")
                    THEN _set_var_type(TypeTables, node.target.id, INT)
                    ELSE TypeTables
       IN  /\ func_local_types' = tb.l
           /\ global_types' = tb.g
           /\ todo' = InferItems(node.body) \o Tail(todo)
    /\ UNCHANGED <<interp, backend, tree, pc, func_param_types, func_return_types,
                   _current_func, _declared_vars, lines, indent, _needs_math>>

\* Any other statement class: no branch of _infer_stmt_types applies.
InferOther ==
    /\ pc = "infer"
    /\ todo # <<>>
    /\ Head(todo).op = "infer"
    /\ Head(todo).node.k \notin {"Assign", "AugAssign", "FunctionDef", "If", "While", "For"}
    /\ todo' = Tail(todo)
    /\ UNCHANGED <<interp, backend, tree, pc, tables, _current_func, _declared_vars,
                   lines, indent, _needs_math>>

-----------------------------------------------------------------------------
(* _refine_param_types: the call-site refinement.                          *)

\* ast.iter_child_nodes: the child nodes in _fields order (operator and
\* expression-context nodes, which have no children and are no Call, omitted).
iter_child_nodes(node) ==
    LET opt(x) == IF x = None THEN <<>> ELSE <<x>>
    IN  CASE isinstance(node, "Module") -> node.body
          [] isinstance(node, "FunctionDef") -> <<node.args>> \o node.body
          [] isinstance(node, "arguments") -> node.args
          [] isinstance(node, "arg") -> opt(node.annotation)
          [] isinstance(node, "Assign") -> node.targets \o <<node.value>>
          [] isinstance(node, "AugAssign") -> <<node.target, node.value>>
          [] isinstance(node, "Expr") -> <<node.value>>
          [] isinstance(node, "If") -> <<node.test>> \o node.body \o node.orelse
          [] isinstance(node, "While") -> <<node.test>> \o node.body
          [] isinstance(node, "For") -> <<node.target, node.iter>> \o node.body
          [] isinstance(node, "Return") -> opt(node.value)
          [] isinstance(node, "BinOp") -> <<node.left, node.right>>
          [] isinstance(node, "UnaryOp") -> <<node.operand>>
          [] isinstance(node, "Compare") -> <<node.left>> \o node.comparators
          [] isinstance(node, "BoolOp") -> node.values
          [] isinstance(node, "IfExp") -> <<node.test, node.body, node.orelse>>
          [] isinstance(node, "Call") -> <<node.func>> \o node.args
          [] isinstance(node, "Subscript") -> <<node.value, node.slice>>
          [] isinstance(node, "Tuple") -> node.elts
          [] OTHER -> <<>>

RECURSIVE WalkLevels(_)
\* ast.walk is breadth-first: the nodes of one depth, then their children in
\* the same order.
WalkLevels(level) ==
    IF level = <<>> THEN <<>>
    ELSE level \o WalkLevels(Concat([i \in 1..Len(level) |-> iter_child_nodes(level[i])]))

walk(node) == WalkLevels(<<node>>)

IsNamedCall(node) == isinstance(node, "Call") /\ isinstance(node.func, "Name")

\* The nodes of ast.walk(tree) that pass the test on line 155, in walk order.
CallsToRefine(module) == SelectSeq(walk(module), IsNamedCall)

RECURSIVE RefineArgs(_, _, _)
\* for i, arg in enumerate(node.args): if i < len(param_names): merge
RefineArgs(ptypes, args, i) ==
    IF i > Len(args) THEN ptypes
    ELSE RefineArgs(
            IF i <= Len(ptypes)
                THEN [ptypes EXCEPT ![i].val = _merge_types(@, _infer_expr_type(args[i]))]
                ELSE ptypes,
            args, i + 1)

SkipRefinement ==
    /\ pc = "infer"
    /\ todo = <<>>
    /\ pc' = "inferred"
    /\ UNCHANGED <<interp, backend, tree, todo, tables, _current_func, _declared_vars,
                   lines, indent, _needs_math>>

StartRefine ==
    /\ pc = "infer"
    /\ todo = <<>>
    /\ pc' = "refine"
    /\ todo' = CallsToRefine(tree)
    /\ UNCHANGED <<interp, backend, tree, tables, _current_func, _declared_vars,
                   lines, indent, _needs_math>>

RefineKnownCall ==
    /\ pc = "refine"
    /\ todo # <<>>
    /\ Head(todo).func.id \in DOMAIN func_param_types
    /\ LET node == Head(todo)
           fname == node.func.id
       IN  func_param_types' =
               [func_param_types EXCEPT ![fname] = RefineArgs(@, node.args, 1)]
    /\ todo' = Tail(todo)
    /\ UNCHANGED <<interp, backend, tree, pc, global_types, func_return_types, func_local_types,
                   _current_func, _declared_vars, lines, indent, _needs_math>>

RefineUnknownCall ==
    /\ pc = "refine"
    /\ todo # <<>>
    /\ Head(todo).func.id \notin DOMAIN func_param_types
    /\ todo' = Tail(todo)
    /\ UNCHANGED <<interp, backend, tree, pc, tables, _current_func, _declared_vars,
                   lines, indent, _needs_math>>

\* generate() is past line 23: both inference passes have run.
FinishRefine ==
    /\ pc = "refine"
    /\ todo = <<>>
    /\ pc' = "inferred"
    /\ UNCHANGED <<interp, backend, tree, todo, tables, _current_func, _declared_vars,
                   lines, indent, _needs_math>>

-----------------------------------------------------------------------------
(* Expression code generation.  An emitted string is built as the source   *)
(* builds it; an emitted line is the sequence of the parts of the f-string *)
(* that formats it (literal text and interpolated values), with the        *)
(* indentation level it was emitted at: its text is "    " * indent        *)
(* followed by the concatenation of the parts.                             *)

RECURSIVE Join(_, _)
\* sep.join(strs)
Join(strs, sep) ==
    IF strs = <<>> THEN ""
    ELSE IF Len(strs) = 1 THEN strs[1]
    ELSE strs[1] \o sep \o Join(Tail(strs), sep)

\* repr() of a non-negative float held in hundredths: 125 is "1.25", 200 is "2.0".
FloatRepr(h) ==
    LET whole == h \div 100
        frac == h % 100
    IN  ToString(whole) \o "." \o
            (IF frac % 10 = 0 THEN ToString(frac \div 10)
             ELSE IF frac < 10 THEN "0" \o ToString(frac)
             ELSE ToString(frac))

_OP_SYMBOLS ==
    [Add |-> "+", Sub |-> "-", Mult |-> "*", Div |-> "/", FloorDiv |-> "/", Mod |-> "%",
     LShift |-> "<<", RShift |-> ">>", BitAnd |-> "&", BitOr |-> "|", BitXor |-> "^"]

_CMP_SYMBOLS ==
    [Eq |-> "==", NotEq |-> "!=", Lt |-> "<", LtE |-> "<=", Gt |-> ">", GtE |-> ">="]

_op_symbol(op) == DictGet(_OP_SYMBOLS, op, "?")
_cmp_symbol(op) == DictGet(_CMP_SYMBOLS, op, "?")

IsPrintCall(node) ==
    isinstance(node, "Call") /\ isinstance(node.func, "Name") /\ node.func.id = "print"

RECURSIVE GenVisits(_)
\* The nodes on which _gen_expr is invoked while generating node (the
\* recursion of _gen_expr, _gen_binop, _gen_call and _gen_print); a print
\* call under MetalCodeGenerator raises before generating its arguments.
GenVisits(node) ==
    LET sub ==
            CASE isinstance(node, "BinOp") -> <<node.left, node.right>>
              [] isinstance(node, "UnaryOp") -> <<node.operand>>
              [] isinstance(node, "Compare") -> <<node.left>> \o node.comparators
              [] isinstance(node, "BoolOp") -> node.values
              [] isinstance(node, "Call") ->
                    IF IsPrintCall(node)
                        THEN (IF backend = "metal" THEN <<>> ELSE node.args)
                        ELSE <<node.func>> \o node.args
              [] isinstance(node, "IfExp") -> <<node.test, node.body, node.orelse>>
              [] isinstance(node, "Subscript") -> <<node.value, node.slice>>
              [] OTHER -> <<>>
    IN  {node} \cup UNION {GenVisits(sub[i]) : i \in 1..Len(sub)}

\* _gen_expr(node) raises ValueError (MetalCodeGenerator._gen_call, line 150).
RaisesNothing(node) == FALSE

Raises(node) == backend = "metal" /\ \E n \in GenVisits(node) : IsPrintCall(n)

\* _gen_expr(node) runs CCodeGenerator._gen_binop's line 74.
SetsNeedsMath(node) ==
    backend = "c" /\ \E n \in GenVisits(node) : isinstance(n, "BinOp") /\ n.op = "Pow"

RECURSIVE _gen_expr(_)
_gen_binop(node) ==
    LET left == _gen_expr(node.left)
        right == _gen_expr(node.right)
        lt == _infer_expr_type(node.left)
        rt == _infer_expr_type(node.right)
        plain == "(" \o left \o " " \o _op_symbol(node.op) \o " " \o right \o ")"
    IN  CASE backend = "c" /\ node.op = "Pow" ->
                IF lt = INT /\ rt = INT
                    THEN "(long long)pow((double)" \o left \o ", (double)" \o right \o ")"
                    ELSE "pow((double)" \o left \o ", (double)" \o right \o ")"
          [] backend = "c" /\ node.op = "FloorDiv" ->
                IF lt = DOUBLE \/ rt = DOUBLE
                    THEN "(long long)((double)" \o left \o " / (double)" \o right \o ")"
                    ELSE "(" \o left \o " / " \o right \o ")"
          [] backend = "metal" /\ node.op = "Pow" ->
                "pow((float)" \o left \o ", (float)" \o right \o ")"
          [] backend = "metal" /\ node.op = "FloorDiv" ->
                IF lt = DOUBLE \/ rt = DOUBLE
                    THEN "(int)((float)" \o left \o " / (float)" \o right \o ")"
                    ELSE "(" \o left \o " / " \o right \o ")"
          [] OTHER -> plain

GenPrintNoCast(node) ==
    LET n == Len(node.args)
        fmt_parts == [i \in 1..n |->
                        IF _infer_expr_type(node.args[i]) = DOUBLE THEN "%f" ELSE "%lld"]
    IN  IF n = 0 THEN "printf(\"\\n\")"
        ELSE "printf(\"" \o Join(fmt_parts, " ") \o "\\n\", "
                \o Join([i \in 1..n |-> _gen_expr(node.args[i])], ", ") \o ")"

_gen_print(node) ==
    LET n == Len(node.args)
        fmt_parts == [i \in 1..n |->
                        IF _infer_expr_type(node.args[i]) = DOUBLE THEN "%f" ELSE "%lld"]
        fmt == Join(fmt_parts, " ") \o "\\n"
        cast_args == [i \in 1..n |->
                        IF /\ _infer_expr_type(node.args[i]) = INT
                           /\ isinstance(node.args[i], "Constant")
                           /\ node.args[i].kind \in {"int", "bool"}
                            THEN "(long long)" \o _gen_expr(node.args[i])
                            ELSE _gen_expr(node.args[i])]
    IN  IF n = 0 THEN "printf(\"\\n\")"
        ELSE "printf(\"" \o fmt \o "\", " \o Join(cast_args, ", ") \o ")"

_gen_call(node) ==
    LET plain == _gen_expr(node.func) \o "("
                    \o Join([i \in 1..Len(node.args) |-> _gen_expr(node.args[i])], ", ")
                    \o ")"
    IN  IF IsPrintCall(node) /\ backend = "c" THEN _gen_print(node)
        ELSE IF IsPrintCall(node) /\ backend = "metal" THEN "<ValueError>"
        ELSE plain

_gen_expr(node) ==
    CASE isinstance(node, "Constant") ->
            (CASE node.kind = "float" -> FloatRepr(node.value)
               [] node.kind = "bool" -> (IF node.value # 0 THEN "1" ELSE "0")
               [] node.kind = "int" -> ToString(node.value)
               [] node.kind = "str" -> "\"" \o node.value \o "\""
               [] OTHER -> "None")
      [] isinstance(node, "Name") -> node.id
      [] isinstance(node, "BinOp") -> _gen_binop(node)
      [] isinstance(node, "UnaryOp") ->
            (CASE node.op = "USub" -> "(-" \o _gen_expr(node.operand) \o ")"
               [] node.op = "UAdd" -> "(+" \o _gen_expr(node.operand) \o ")"
               [] node.op = "Not" -> "(!" \o _gen_expr(node.operand) \o ")"
               [] OTHER -> _gen_expr(node.operand))
      [] isinstance(node, "Compare") ->
            LET n == Len(node.ops)
                parts == <<_gen_expr(node.left)>> \o
                         Concat([i \in 1..n |->
                            <<_cmp_symbol(node.ops[i]), _gen_expr(node.comparators[i])>>])
            IN  "(" \o Join(parts, " ") \o ")"
      [] isinstance(node, "BoolOp") ->
            "(" \o Join([i \in 1..Len(node.values) |-> _gen_expr(node.values[i])],
                        IF node.op = "And" THEN " && " ELSE " || ") \o ")"
      [] isinstance(node, "Call") -> _gen_call(node)
      [] isinstance(node, "IfExp") ->
            "(" \o _gen_expr(node.test) \o " ? " \o _gen_expr(node.body)
                \o " : " \o _gen_expr(node.orelse) \o ")"
      [] isinstance(node, "Subscript") ->
            _gen_expr(node.value) \o "[" \o _gen_expr(node.slice) \o "]"
      [] OTHER -> "/* unsupported: " \o node.k \o " */"

_gen_target(target) ==
    CASE isinstance(target, "Name") -> target.id
      [] isinstance(target, "Subscript") ->
            _gen_expr(target.value) \o "[" \o _gen_expr(target.slice) \o "]"
      [] OTHER -> "?"

\* _gen_target(target) raises: only its Subscript branch generates expressions.
RaisesTarget(target) ==
    isinstance(target, "Subscript") /\ (Raises(target.value) \/ Raises(target.slice))

SetsNeedsMathTarget(target) ==
    isinstance(target, "Subscript")
        /\ (SetsNeedsMath(target.value) \/ SetsNeedsMath(target.slice))

\* _emit: the line appended at indentation level ind.
Line(ind, toks) == [indent |-> ind, toks |-> toks]

-----------------------------------------------------------------------------
(* Statement code generation: _gen_stmt and the handlers it calls.         *)

StmtItem(node) == [op |-> "stmt", node |-> node]
StmtItems(body) == [i \in 1..Len(body) |-> StmtItem(body[i])]

AtEmit(op) == pc = "emit" /\ todo # <<>> /\ Head(todo).op = op
AtStmt(class) == AtEmit("stmt") /\ isinstance(Head(todo).node, class)

\* One handler invocation of the emitter: it raised (the exception unwinds
\* generate(), nothing is returned), or it appended newLines, left the
\* indentation at newIndent and the declared names at declared, and calls
\* the handlers of pushed next.  math: it ran line 74 of codegen_c.py.
EmitStep(raised, math, newLines, newIndent, declared, pushed) ==
    /\ pc' = IF raised THEN "error" ELSE pc
    /\ todo' = IF raised THEN <<>> ELSE pushed \o Tail(todo)
    /\ lines' = IF raised THEN lines ELSE lines \o newLines
    /\ indent' = IF raised THEN indent ELSE newIndent
    /\ _declared_vars' = IF raised THEN _declared_vars ELSE declared
    /\ _needs_math' = (_needs_math \/ math)
    /\ UNCHANGED <<interp, backend, tree, tables, _current_func>>

DeclareNothing(declared, name) == declared

\* self._declared_vars.add(target.id)
Declare(declared, name) == declared \cup {name}

RECURSIVE GenAssignTargets(_, _, _)
\* The loop over node.targets of the Assign branch, from state
\* st = [lines, declared, raised]; it stops at the first raise.
GenAssignTargets(targets, value, st) ==
    IF targets = <<>> \/ st.raised THEN st
    ELSE LET target == Head(targets)
             val == _gen_expr(value)
             vtype == _type_of_var(target.id)
             next ==
                CASE isinstance(target, "Name") ->
                        IF Raises(value) THEN [st EXCEPT !.raised = TRUE]
                        ELSE IF target.id \notin st.declared
                            THEN [st EXCEPT
                                    !.declared = Declare(@, target.id),
                                    !.lines = Append(@, Line(indent,
                                        <<vtype, " ", target.id, " = ", val, ";">>))]
                            ELSE [st EXCEPT
                                    !.lines = Append(@, Line(indent,
                                        <<target.id, " = ", val, ";">>))]
                  [] isinstance(target, "Subscript") ->
                        IF Raises(target) \/ Raises(value) THEN [st EXCEPT !.raised = TRUE]
                        ELSE [st EXCEPT
                                !.lines = Append(@, Line(indent,
                                    <<_gen_expr(target), " = ", val, ";">>))]
                  [] OTHER -> st
         IN  GenAssignTargets(Tail(targets), value, next)

GenAssign ==
    /\ AtStmt("Assign")
    /\ LET node == Head(todo).node
           r == GenAssignTargets(node.targets, node.value,
                    [lines |-> lines, declared |-> _declared_vars, raised |-> FALSE])
           generated == \E i \in 1..Len(node.targets) :
                            node.targets[i].k \in {"Name", "Subscript"}
           math == \/ generated /\ SetsNeedsMath(node.value)
                   \/ \E i \in 1..Len(node.targets) : SetsNeedsMathTarget(node.targets[i])
       IN  /\ pc' = IF r.raised THEN "error" ELSE pc
           /\ todo' = IF r.raised THEN <<>> ELSE Tail(todo)
           /\ lines' = r.lines
           /\ _declared_vars' = r.declared
           /\ _needs_math' = (_needs_math \/ math)
    /\ UNCHANGED <<interp, backend, tree, tables, _current_func, indent>>

GenAugAssign ==
    /\ AtStmt("AugAssign")
    /\ LET node == Head(todo).node
       IN  EmitStep(RaisesTarget(node.target) \/ Raises(node.value),
                    SetsNeedsMathTarget(node.target) \/ SetsNeedsMath(node.value),
                    <<Line(indent, <<_gen_target(node.target), " ", _op_symbol(node.op),
                                     "= ", _gen_expr(node.value), ";">>)>>,
                    indent, _declared_vars, <<>>)

GenExprStmt ==
    /\ AtStmt("Expr")
    /\ LET node == Head(todo).node
       IN  EmitStep(Raises(node.value), SetsNeedsMath(node.value),
                    <<Line(indent, <<_gen_expr(node.value), ";">>)>>,
                    indent, _declared_vars, <<>>)

\* _gen_if up to the end of the loop over node.body; the rest is GenIfOrelse.
GenIf ==
    /\ AtStmt("If")
    /\ LET node == Head(todo).node
       IN  EmitStep(Raises(node.test), SetsNeedsMath(node.test),
                    <<Line(indent, <<"if (", _gen_expr(node.test), ") {">>)>>,
                    indent + 1, _declared_vars,
                    StmtItems(node.body) \o <<[op |-> "if_orelse", node |-> node]>>)

IsElifAnyIf(orelse) == orelse # <<>> /\ isinstance(orelse[1], "If")

\* len(node.orelse) == 1 and isinstance(node.orelse[0], ast.If)
IsElif(orelse) == Len(orelse) = 1 /\ isinstance(orelse[1], "If")

\* _gen_if from line 226.
GenIfOrelse ==
    /\ AtEmit("if_orelse")
    /\ LET node == Head(todo).node
       IN  CASE node.orelse = <<>> ->
                    EmitStep(FALSE, FALSE, <<Line(indent - 1, <<"}">>)>>,
                             indent - 1, _declared_vars, <<>>)
             [] IsElif(node.orelse) ->
                    EmitStep(FALSE, FALSE, <<>>, indent - 1, _declared_vars,
                             <<[op |-> "elif", node |-> node.orelse[1]], [op |-> "close"]>>)
             [] OTHER ->
                    EmitStep(FALSE, FALSE, <<Line(indent - 1, <<"} else {">>)>>,
                             indent, _declared_vars,
                             StmtItems(node.orelse) \o <<[op |-> "end_block"]>>)

\* _gen_elif_chain up to the end of the loop over node.body.
GenElifChain ==
    /\ AtEmit("elif")
    /\ LET node == Head(todo).node
       IN  EmitStep(Raises(node.test), SetsNeedsMath(node.test),
                    <<Line(indent, <<"} else if (", _gen_expr(node.test), ") {">>)>>,
                    indent + 1, _declared_vars,
                    StmtItems(node.body) \o <<[op |-> "elif_orelse", node |-> node]>>)

\* _gen_elif_chain from line 248.
GenElifOrelse ==
    /\ AtEmit("elif_orelse")
    /\ LET node == Head(todo).node
       IN  CASE node.orelse = <<>> ->
                    EmitStep(FALSE, FALSE, <<>>, indent - 1, _declared_vars, <<>>)
             [] IsElif(node.orelse) ->
                    EmitStep(FALSE, FALSE, <<>>, indent - 1, _declared_vars,
                             <<[op |-> "elif", node |-> node.orelse[1]]>>)
             [] OTHER ->
                    EmitStep(FALSE, FALSE, <<Line(indent - 1, <<"} else {">>)>>,
                             indent, _declared_vars,
                             StmtItems(node.orelse) \o <<[op |-> "dedent"]>>)

\* self.indent -= 1; self._emit("}"): the end of a while, for or else block.
EndBlock ==
    /\ AtEmit("end_block")
    /\ EmitStep(FALSE, FALSE, <<Line(indent - 1, <<"}">>)>>, indent - 1, _declared_vars, <<>>)

\* self._emit("}") on line 234, after _gen_elif_chain returns.
EmitClose ==
    /\ AtEmit("close")
    /\ EmitStep(FALSE, FALSE, <<Line(indent, <<"}">>)>>, indent, _declared_vars, <<>>)

\* self.indent -= 1 on line 259.
Dedent ==
    /\ AtEmit("dedent")
    /\ EmitStep(FALSE, FALSE, <<>>, indent - 1, _declared_vars, <<>>)

GenWhile ==
    /\ AtStmt("While")
    /\ LET node == Head(todo).node
       IN  EmitStep(Raises(node.test), SetsNeedsMath(node.test),
                    <<Line(indent, <<"while (", _gen_expr(node.test), ") {">>)>>,
                    indent + 1, _declared_vars,
                    StmtItems(node.body) \o <<[op |-> "end_block"]>>)

_for_loop_type == IF backend = "c" THEN "long long" ELSE INT

IsNegativeStepAnyNegation(node) ==
    IF isinstance(node, "Constant") /\ node.kind \in {"int", "float", "bool"}
        THEN node.value < 0
    ELSE isinstance(node, "UnaryOp") /\ node.op = "USub"

_is_negative_step(node) ==
    IF isinstance(node, "Constant") /\ node.kind \in {"int", "float", "bool"}
        THEN node.value < 0
    ELSE IF isinstance(node, "UnaryOp") /\ node.op = "USub"
        THEN isinstance(node.operand, "Constant")
    ELSE FALSE

IsRangeCall(node) ==
    isinstance(node, "Call") /\ isinstance(node.func, "Name") /\ node.func.id = "range"

\* The range arguments _gen_for generates: none when there are more than three.
RangeArgs(iter) == IF Len(iter.args) <= 3 THEN iter.args ELSE <<>>

GenFor ==
    /\ AtStmt("For")
    /\ LET node == Head(todo).node
           target == _gen_target(node.target)
           args == node.iter.args
           n == Len(args)
           start == IF n \in {2, 3} THEN _gen_expr(args[1]) ELSE "0"
           end == CASE n = 1 -> _gen_expr(args[1])
                    [] n \in {2, 3} -> _gen_expr(args[2])
                    [] OTHER -> "0"
           step == IF n = 3 THEN _gen_expr(args[3]) ELSE "1"
           step_negative == n = 3 /\ _is_negative_step(args[3])
           cmp == IF step_negative THEN ">" ELSE "<"
           gen == IF IsRangeCall(node.iter) THEN RangeArgs(node.iter) ELSE <<>>
           header ==
                IF IsRangeCall(node.iter)
                    THEN <<"for (", _for_loop_type, " ", target, " = ", start, "; ",
                           target, " ", cmp, " ", end, "; ", target, " += ", step, ") {">>
                    ELSE <<"/* unsupported for-iter */ {">>
       IN  EmitStep(RaisesTarget(node.target) \/ \E i \in 1..Len(gen) : Raises(gen[i]),
                    SetsNeedsMathTarget(node.target)
                        \/ \E i \in 1..Len(gen) : SetsNeedsMath(gen[i]),
                    <<Line(indent, header)>>,
                    indent + 1,
                    IF IsRangeCall(node.iter) THEN _declared_vars \cup {target}
                                              ELSE _declared_vars,
                    StmtItems(node.body) \o <<[op |-> "end_block"]>>)

GenReturn ==
    /\ AtStmt("Return")
    /\ LET node == Head(todo).node
       IN  IF node.value # None
            THEN EmitStep(Raises(node.value), SetsNeedsMath(node.value),
                          <<Line(indent, <<"return ", _gen_expr(node.value), ";">>)>>,
                          indent, _declared_vars, <<>>)
            ELSE EmitStep(FALSE, FALSE, <<Line(indent, <<"return;">>)>>,
                          indent, _declared_vars, <<>>)

\* Pass, Break, Continue.
GenSimple ==
    /\ AtEmit("stmt")
    /\ Head(todo).node.k \in {"Pass", "Break", "Continue"}
    /\ LET text == CASE Head(todo).node.k = "Pass" -> "// pass"
                     [] Head(todo).node.k = "Break" -> "break;"
                     [] OTHER -> "continue;"
       IN  EmitStep(FALSE, FALSE, <<Line(indent, <<text>>)>>, indent, _declared_vars, <<>>)

\* A statement class no branch of _gen_stmt matches: nothing is emitted.
GenUnhandled ==
    /\ AtEmit("stmt")
    /\ Head(todo).node.k \notin {"Assign", "AugAssign", "Expr", "If", "While", "For",
                                 "Return", "Pass", "Break", "Continue"}
    /\ EmitStep(FALSE, FALSE, <<>>, indent, _declared_vars, <<>>)

-----------------------------------------------------------------------------
(* Function and kernel code generation.                                    *)

ArgNames(node) == [i \in 1..Len(node.args.args) |-> node.args.args[i].arg]

\* ", ".join(f"{type} {a.arg}" for a in node.args.args), as lines 382-384 of
\* codegen_base.py and 42-45 of codegen_c.py build it.
Signature(node) ==
    LET param_types == DictGet(func_param_types, node.name, <<>>)
    IN  Join([i \in 1..Len(node.args.args) |->
                OGet(param_types, node.args.args[i].arg, INT) \o " " \o node.args.args[i].arg],
             ", ")

_gen_function ==
    /\ AtEmit("function")
    /\ LET node == Head(todo).node
           ret_type == DictGet(func_return_types, node.name, INT)
       IN  /\ _current_func' = node.name
           /\ _declared_vars' = SeqToSet(ArgNames(node))
           /\ lines' = Append(lines, Line(indent,
                            <<ret_type, " ", node.name, "(", Signature(node), ") {">>))
           /\ indent' = indent + 1
           /\ todo' = StmtItems(node.body)
                        \o <<[op |-> "end_function", old_func |-> _current_func,
                              old_declared |-> _declared_vars]>>
                        \o Tail(todo)
    /\ UNCHANGED <<interp, backend, tree, pc, tables, _needs_math>>

EndFunctionKeepDeclared ==
    /\ AtEmit("end_function")
    /\ lines' = lines \o <<Line(indent - 1, <<"}">>), Line(indent - 1, <<"">>)>>
    /\ indent' = indent - 1
    /\ _current_func' = Head(todo).old_func
    /\ todo' = Tail(todo)
    /\ UNCHANGED <<interp, backend, tree, pc, tables, _needs_math, _declared_vars>>

\* _gen_function from line 392.
EndFunction ==
    /\ AtEmit("end_function")
    /\ lines' = lines \o <<Line(indent - 1, <<"}">>), Line(indent - 1, <<"">>)>>
    /\ indent' = indent - 1
    /\ _current_func' = Head(todo).old_func
    /\ _declared_vars' = Head(todo).old_declared
    /\ todo' = Tail(todo)
    /\ UNCHANGED <<interp, backend, tree, pc, tables, _needs_math>>

\* The set `indexed` of _classify_params.
Indexed(node) ==
    {child.value.id : child \in
        {c \in SeqToSet(walk(node)) :
            /\ isinstance(c, "Subscript")
            /\ isinstance(c.value, "Name")
            /\ c.value.id \in SeqToSet(ArgNames(node))}}

\* The set `tid_compared` of _classify_params.
TidCompared(node) ==
    LET names(c) == {n.id : n \in {o \in SeqToSet(<<c.left>> \o c.comparators) :
                                        isinstance(o, "Name")}}
    IN  UNION {names(c) \ {"tid"} : c \in
            {c \in SeqToSet(walk(node)) : isinstance(c, "Compare") /\ "tid" \in names(c)}}
        \cap SeqToSet(ArgNames(node))

ClassifyComparedFirst(node) ==
    LET kind(name) ==
            LET typ == OGet(DictGet(func_param_types, node.name, <<>>), name, INT)
            IN  IF name = "tid" THEN "tid"
                ELSE IF name \in Indexed(node)
                    THEN (IF typ = DOUBLE THEN "buffer_float" ELSE "buffer_int")
                ELSE IF name \in TidCompared(node) THEN "scalar_uint"
                ELSE IF typ = DOUBLE THEN "scalar_float"
                ELSE "scalar_int"
    IN  [i \in 1..Len(node.args.args) |->
            [name |-> node.args.args[i].arg, kind |-> kind(node.args.args[i].arg)]]

_classify_params(node) ==
    LET indexed == Indexed(node)
        tid_compared == TidCompared(node)
        kind(name) ==
            LET typ == OGet(DictGet(func_param_types, node.name, <<>>), name, INT)
                is_float == typ = DOUBLE
            IN  IF name = "tid" THEN "tid"
                ELSE IF name \in indexed
                    THEN (IF is_float THEN "buffer_float" ELSE "buffer_int")
                ELSE IF is_float THEN "scalar_float"
                ELSE IF name \in tid_compared THEN "scalar_uint"
                ELSE "scalar_int"
    IN  [i \in 1..Len(node.args.args) |->
            [name |-> node.args.args[i].arg, kind |-> kind(node.args.args[i].arg)]]

\* The text of each template up to {name}.
_PARAM_TEMPLATES ==
    [tid |-> "    uint ",
     buffer_float |-> "    device float* ",
     buffer_int |-> "    device int* ",
     scalar_float |-> "    constant float& ",
     scalar_uint |-> "    constant uint& ",
     scalar_int |-> "    constant int& "]

RECURSIVE KernelParamsByPosition(_, _)
KernelParamsByPosition(classified, buf_idx) ==
    IF classified = <<>> THEN <<>>
    ELSE LET c == Head(classified)
         IN  (IF c.kind = "tid"
                THEN <<<<_PARAM_TEMPLATES[c.kind], c.name, " [[thread_position_in_grid]]">>>>
                ELSE <<<<_PARAM_TEMPLATES[c.kind], c.name, " [[buffer(",
                         ToString(buf_idx), ")]]">>>>)
                \o KernelParamsByPosition(Tail(classified), buf_idx + 1)

RECURSIVE KernelParams(_, _)
\* The list `params` of _gen_kernel: the loop of lines 108-115 from buf_idx,
\* each entry the parts of its formatted template.
KernelParams(classified, buf_idx) ==
    IF classified = <<>> THEN <<>>
    ELSE LET c == Head(classified)
         IN  IF c.kind = "tid"
                THEN <<<<_PARAM_TEMPLATES[c.kind], c.name, " [[thread_position_in_grid]]">>>>
                        \o KernelParams(Tail(classified), buf_idx)
                ELSE <<<<_PARAM_TEMPLATES[c.kind], c.name, " [[buffer(",
                         ToString(buf_idx), ")]]">>>>
                        \o KernelParams(Tail(classified), buf_idx + 1)

RECURSIVE JoinParts(_, _)
\* sep.join(params), kept as parts.
JoinParts(params, sep) ==
    IF params = <<>> THEN <<"">>
    ELSE IF Len(params) = 1 THEN params[1]
    ELSE params[1] \o <<sep>> \o JoinParts(Tail(params), sep)

_gen_kernel ==
    /\ AtEmit("kernel")
    /\ LET node == Head(todo).node
           classified == _classify_params(node)
           params == KernelParams(classified, 0)
       IN  /\ _current_func' = node.name
           /\ _declared_vars' = {classified[i].name : i \in 1..Len(classified)}
           /\ lines' = lines \o <<Line(indent, <<"kernel void ", node.name, "(">>),
                                  Line(indent, JoinParts(params, ",\n")),
                                  Line(indent, <<") {">>)>>
           /\ indent' = indent + 1
           /\ todo' = StmtItems(node.body)
                        \o <<[op |-> "end_kernel", old_func |-> _current_func,
                              old_declared |-> _declared_vars]>>
                        \o Tail(todo)
    /\ UNCHANGED <<interp, backend, tree, pc, tables, _needs_math>>

\* _gen_kernel from line 123.
EndKernel ==
    /\ AtEmit("end_kernel")
    /\ lines' = lines \o <<Line(indent - 1, <<"}">>), Line(indent - 1, <<"">>)>>
    /\ indent' = indent - 1
    /\ _current_func' = Head(todo).old_func
    /\ _declared_vars' = Head(todo).old_declared
    /\ todo' = Tail(todo)
    /\ UNCHANGED <<interp, backend, tree, pc, tables, _needs_math>>

-----------------------------------------------------------------------------
(* The drivers: CCodeGenerator.generate and MetalCodeGenerator.generate,   *)
(* from the line after the two inference passes.                           *)

FuncNodes(module) == SelectSeq(module.body, LAMBDA n : isinstance(n, "FunctionDef"))
TopLevel(module) == SelectSeq(module.body, LAMBDA n : ~isinstance(n, "FunctionDef"))

IsKernelByLastParam(node) ==
    ArgNames(node) # <<>> /\ ArgNames(node)[Len(ArgNames(node))] = "tid"

IsKernel(node) == "tid" \in SeqToSet(ArgNames(node))
Kernels(module) == SelectSeq(FuncNodes(module), IsKernel)
Helpers(module) == SelectSeq(FuncNodes(module), LAMBDA n : ~IsKernel(n))

FunctionItemsReversed(nodes) ==
    [i \in 1..Len(nodes) |-> [op |-> "function", node |-> nodes[Len(nodes) + 1 - i]]]

FunctionItems(nodes) == [i \in 1..Len(nodes) |-> [op |-> "function", node |-> nodes[i]]]
KernelItems(nodes) == [i \in 1..Len(nodes) |-> [op |-> "kernel", node |-> nodes[i]]]

IsPow(n) == isinstance(n, "BinOp") /\ n.op = "Pow"

HasPowAtTopLevel(module) ==
    \E i \in 1..Len(TopLevel(module)) : \E n \in SeqToSet(walk(TopLevel(module)[i])) : IsPow(n)

\* any(isinstance(n, ast.BinOp) and isinstance(n.op, ast.Pow) for n in ast.walk(tree))
HasPow(module) == \E n \in SeqToSet(walk(module)) : IsPow(n)

\* CCodeGenerator.generate, lines 25-52.
GenerateC ==
    /\ pc = "inferred"
    /\ backend = "c"
    /\ LET func_nodes == FuncNodes(tree)
           needs_math == HasPow(tree)
           forward == [i \in 1..Len(func_nodes) |->
                        Line(indent, <<DictGet(func_return_types, func_nodes[i].name, INT),
                                       " ", func_nodes[i].name, "(",
                                       Signature(func_nodes[i]), ");">>)]
       IN  /\ _needs_math' = needs_math
           /\ lines' = lines
                \o <<Line(indent, <<"#include <stdio.h>">>)>>
                \o (IF needs_math THEN <<Line(indent, <<"#include <math.h>">>)>> ELSE <<>>)
                \o <<Line(indent, <<"">>)>>
                \o forward
                \o (IF func_nodes # <<>> THEN <<Line(indent, <<"">>)>> ELSE <<>>)
           /\ todo' = FunctionItems(func_nodes) \o <<[op |-> "main"]>>
    /\ pc' = "emit"
    /\ UNCHANGED <<interp, backend, tree, tables, _current_func, _declared_vars, indent>>

\* CCodeGenerator.generate, lines 55-59.
GenMain ==
    /\ AtEmit("main")
    /\ lines' = Append(lines, Line(indent, <<"int main() {">>))
    /\ indent' = indent + 1
    /\ _declared_vars' = {}
    /\ todo' = StmtItems(TopLevel(tree)) \o <<[op |-> "end_main"]>> \o Tail(todo)
    /\ UNCHANGED <<interp, backend, tree, pc, tables, _current_func, _needs_math>>

\* CCodeGenerator.generate, lines 60-63.
EndMain ==
    /\ AtEmit("end_main")
    /\ lines' = lines \o <<Line(indent, <<"return 0;">>), Line(indent - 1, <<"}">>),
                           Line(indent - 1, <<"">>)>>
    /\ indent' = indent - 1
    /\ todo' = Tail(todo)
    /\ UNCHANGED <<interp, backend, tree, pc, tables, _current_func, _declared_vars, _needs_math>>

\* MetalCodeGenerator.generate, lines 25-40.
GenerateMetal ==
    /\ pc = "inferred"
    /\ backend = "metal"
    /\ lines' = lines \o <<Line(indent, <<"#include <metal_stdlib>">>),
                           Line(indent, <<"using namespace metal;">>),
                           Line(indent, <<"">>)>>
    /\ todo' = FunctionItems(Helpers(tree)) \o KernelItems(Kernels(tree))
    /\ pc' = "emit"
    /\ UNCHANGED <<interp, backend, tree, tables, _current_func, _declared_vars, indent, _needs_math>>

\* return "\n".join(self.lines) + "\n"
Return_ ==
    /\ pc = "emit"
    /\ todo = <<>>
    /\ pc' = "done"
    /\ UNCHANGED <<interp, backend, tree, todo, tables, _current_func, _declared_vars,
                   lines, indent, _needs_math>>

EmitNext ==
    \/ GenerateC
    \/ GenerateMetal
    \/ _gen_function
    \/ EndFunction
    \/ _gen_kernel
    \/ EndKernel
    \/ GenMain
    \/ EndMain
    \/ GenAssign
    \/ GenAugAssign
    \/ GenExprStmt
    \/ GenIf
    \/ GenIfOrelse
    \/ GenElifChain
    \/ GenElifOrelse
    \/ EndBlock
    \/ EmitClose
    \/ Dedent
    \/ GenWhile
    \/ GenFor
    \/ GenReturn
    \/ GenSimple
    \/ GenUnhandled
    \/ Return_

-----------------------------------------------------------------------------
(* __init__, and the start of generate() on a module.                      *)

Module(body) == [k |-> "Module", body |-> body]

Start(b, module) ==
    /\ backend = b
    /\ tree = module
    /\ pc = "infer"
    /\ todo = InferItems(module.body)
    /\ global_types = EmptyDict
    /\ func_param_types = EmptyDict
    /\ func_return_types = EmptyDict
    /\ func_local_types = EmptyDict
    /\ _current_func = NoFunc
    /\ _declared_vars = {}
    /\ lines = <<>>
    /\ indent = 0
    /\ _needs_math = FALSE
    /\ envs = <<>>
    /\ stdout = <<>>
    /\ exception = "none"

InferNext ==
    \/ InferAssign
    \/ InferAugAssign
    \/ InferFunctionDef
    \/ InferFunctionDefReturn
    \/ InferIf
    \/ InferWhile
    \/ InferFor
    \/ InferOther
    \/ StartRefine
    \/ RefineKnownCall
    \/ RefineUnknownCall
    \/ FinishRefine

-----------------------------------------------------------------------------
(* The interpreter: values, environments and expression evaluation.        *)
(* A value is a record tagged with its Python class; an int or a bool      *)
(* carries its integer value (True is 1).  An evaluation yields a value or *)
(* the class of the exception it raised.  _eval is the evaluation of an    *)
(* expression that prints nothing and runs no user function; print and     *)
(* calls of user functions are evaluated by the statement that holds them. *)

IntV(n) == [t |-> "int", v |-> n]
BoolV(b) == [t |-> "bool", v |-> IF b THEN 1 ELSE 0]
NoneV == [t |-> "NoneType"]
ListV(items) == [t |-> "list", items |-> items]
Function(name, params, body, closure) ==
    [t |-> "Function", name |-> name, params |-> params, body |-> body, closure |-> closure]

Returns(value) == [exc |-> "none", value |-> value]
Raise(class) == [exc |-> class]

\* The keys of self.builtins whose value is not None.
builtins == <<"print", "len", "range", "int", "float", "str", "abs", "min", "max",
              "type", "isinstance", "input">>

\* Environment(parent); parent 0 is None.
Environment(parent) == [vars |-> <<>>, parent |-> parent]

RECURSIVE get(_, _, _)
get(E, env, name) ==
    IF OHas(E[env].vars, name) THEN Returns(OGet(E[env].vars, name, NoneV))
    ELSE IF E[env].parent # 0 THEN get(E, E[env].parent, name)
    ELSE Raise("InterpreterError")

set(E, env, name, value) == [E EXCEPT ![env].vars = OSet(@, name, value)]

TruthyNever(value) == FALSE

\* The truth value Python takes of a condition.
Truthy(value) ==
    CASE value.t \in {"int", "bool"} -> value.v # 0
      [] value.t = "NoneType" -> FALSE
      [] value.t = "list" -> value.items # <<>>
      [] OTHER -> TRUE

\* operator.floordiv and operator.mod on ints: the quotient rounded towards
\* minus infinity, and the remainder with the sign of the divisor.
floordiv(a, b) == IF b > 0 THEN a \div b ELSE (0 - a) \div (0 - b)
mod(a, b) == a - b * floordiv(a, b)

BINOP_MAP == {"Add", "Sub", "Mult", "Div", "FloorDiv", "Mod", "Pow", "LShift", "RShift",
              "BitAnd", "BitOr", "BitXor"}
CMP_MAP == {"Eq", "NotEq", "Lt", "LtE", "Gt", "GtE", "In", "NotIn", "Is", "IsNot"}

\* _apply_op on ints and bools, for the operators whose result is an int.
_apply_op(op, left, right) ==
    IF op \notin BINOP_MAP THEN Raise("InterpreterError")
    ELSE IF op \in {"FloorDiv", "Mod"} /\ right.v = 0 THEN Raise("ZeroDivisionError")
    ELSE LET a == left.v
             b == right.v
         IN  Returns(IntV(CASE op = "Add" -> a + b
                            [] op = "Sub" -> a - b
                            [] op = "Mult" -> a * b
                            [] op = "FloorDiv" -> floordiv(a, b)
                            [] op = "Mod" -> mod(a, b)
                            [] op = "Pow" /\ b >= 0 -> a ^ b))

\* _compare on ints and bools, for the ordering and equality operators.
_compare(op, left, right) ==
    IF op \notin CMP_MAP THEN Raise("InterpreterError")
    ELSE Returns(BoolV(CASE op = "Eq" -> left.v = right.v
                         [] op = "NotEq" -> left.v # right.v
                         [] op = "Lt" -> left.v < right.v
                         [] op = "LtE" -> left.v <= right.v
                         [] op = "Gt" -> left.v > right.v
                         [] op = "GtE" -> left.v >= right.v))

\* list(range(*args)) for one, two or three int arguments.
range(args) ==
    LET start == IF Len(args) = 1 THEN 0 ELSE args[1].v
        stop == IF Len(args) = 1 THEN args[1].v ELSE args[2].v
        step == IF Len(args) = 3 THEN args[3].v ELSE 1
        RECURSIVE from(_)
        from(i) == IF (step > 0 /\ i < stop) \/ (step < 0 /\ i > stop)
                    THEN <<IntV(i)>> \o from(i + step) ELSE <<>>
    IN  IF step = 0 THEN Raise("ValueError") ELSE Returns(ListV(from(start)))

\* str(value) for the values the programs print.
str(value) ==
    CASE value.t = "int" -> ToString(value.v)
      [] value.t = "bool" -> IF value.v = 1 THEN "True" ELSE "False"
      [] value.t = "NoneType" -> "None"

RECURSIVE _eval(_, _, _)
RECURSIVE EvalArgs(_, _, _)
RECURSIVE EvalBoolOp(_, _, _, _, _)
RECURSIVE EvalCompare(_, _, _, _, _)

\* [self._eval(a, env) for a in node.args]: the values, or the first raise.
EvalArgs(E, args, env) ==
    IF args = <<>> THEN Returns(<<>>)
    ELSE LET first == _eval(E, Head(args), env)
             rest == EvalArgs(E, Tail(args), env)
         IN  IF first.exc # "none" THEN first
             ELSE IF rest.exc # "none" THEN rest
             ELSE Returns(<<first.value>> \o rest.value)

\* The loops of the BoolOp branch, result being the value so far.
EvalBoolOp(E, op, values, env, result) ==
    IF values = <<>> THEN Returns(result)
    ELSE LET val == _eval(E, Head(values), env)
         IN  IF val.exc # "none" THEN val
             ELSE IF (op = "And") = ~Truthy(val.value) THEN val
             ELSE EvalBoolOp(E, op, Tail(values), env, val.value)

\* The loop of the Compare branch, left being the value of the last operand.
EvalCompare(E, left, ops, comparators, env) ==
    IF ops = <<>> THEN Returns(BoolV(TRUE))
    ELSE LET right == _eval(E, Head(comparators), env)
             holds == _compare(Head(ops), left, right.value)
         IN  IF right.exc # "none" THEN right
             ELSE IF holds.exc # "none" THEN holds
             ELSE IF ~Truthy(holds.value) THEN Returns(BoolV(FALSE))
             ELSE EvalCompare(E, right.value, Tail(ops), Tail(comparators), env)

_eval(E, node, env) ==
    CASE isinstance(node, "Constant") -> Returns([t |-> node.kind, v |-> node.value])
      [] isinstance(node, "Name") -> get(E, env, node.id)
      [] isinstance(node, "BinOp") ->
            LET left == _eval(E, node.left, env)
                right == _eval(E, node.right, env)
            IN  IF left.exc # "none" THEN left
                ELSE IF right.exc # "none" THEN right
                ELSE _apply_op(node.op, left.value, right.value)
      [] isinstance(node, "UnaryOp") ->
            LET operand == _eval(E, node.operand, env)
            IN  IF operand.exc # "none" THEN operand
                ELSE CASE node.op = "USub" -> Returns(IntV(0 - operand.value.v))
                       [] node.op = "UAdd" -> Returns(IntV(operand.value.v))
                       [] node.op = "Not" -> Returns(BoolV(~Truthy(operand.value)))
                       [] OTHER -> Raise("InterpreterError")
      [] isinstance(node, "BoolOp") ->
            EvalBoolOp(E, node.op, node.values, env, BoolV(node.op = "And"))
      [] isinstance(node, "Compare") ->
            LET left == _eval(E, node.left, env)
            IN  IF left.exc # "none" THEN left
                ELSE EvalCompare(E, left.value, node.ops, node.comparators, env)
      [] isinstance(node, "IfExp") ->
            LET test == _eval(E, node.test, env)
            IN  IF test.exc # "none" THEN test
                ELSE IF Truthy(test.value) THEN _eval(E, node.body, env)
                ELSE _eval(E, node.orelse, env)
      [] isinstance(node, "Call") /\ node.func = Name("range") ->
            LET func == _eval(E, node.func, env)
                args == EvalArgs(E, node.args, env)
            IN  IF func.exc # "none" THEN func
                ELSE IF args.exc # "none" THEN args
                ELSE range(args.value)
      [] node.k \notin {"Constant", "Name", "BinOp", "UnaryOp", "BoolOp", "Compare", "Call",
                        "IfExp", "List", "Tuple", "Subscript", "Slice", "Attribute",
                        "JoinedStr", "ListComp"} ->
            Raise("InterpreterError")

-----------------------------------------------------------------------------
(* The interpreter: Interpreter.run and one action per branch of _exec.    *)
(* A work item is a statement to execute in an environment, the rest of a  *)
(* for loop, or the return point of a call of a user function.             *)

codegen == <<global_types, func_param_types, func_return_types, func_local_types,
             _current_func, _declared_vars, lines, indent, _needs_math>>

ExecItems(body, env) == [i \in 1..Len(body) |-> [op |-> "exec", node |-> body[i], env |-> env]]

AtRun(op) == pc = "run" /\ todo # <<>> /\ Head(todo).op = op
AtExec(class) == AtRun("exec") /\ isinstance(Head(todo).node, class)

\* One invocation of _exec (or one turn of a loop, or one return): it raised
\* an exception that nothing in the interpreter catches, which leaves run();
\* or it left the environments at E, the output at out, and execution goes
\* on with the work `next`.
ExecStep(exc, E, out, next) ==
    /\ pc' = IF exc = "none" THEN pc ELSE "error"
    /\ exception' = exc
    /\ todo' = IF exc = "none" THEN next ELSE <<>>
    /\ envs' = E
    /\ stdout' = out
    /\ UNCHANGED <<backend, tree, codegen>>

\* Interpreter.run up to the loop over tree.body.
run ==
    /\ pc = "new"
    /\ LET RECURSIVE install(_, _)
           install(names, E) ==
                IF names = <<>> THEN E
                ELSE install(Tail(names),
                             set(E, 1, Head(names), [t |-> "builtin", name |-> Head(names)]))
       IN  envs' = install(builtins, envs)
    /\ todo' = ExecItems(tree.body, 1)
    /\ pc' = "run"
    /\ UNCHANGED <<backend, tree, codegen, stdout, exception>>

\* The loop over tree.body has ended: run() returns.
RunReturns ==
    /\ pc = "run"
    /\ todo = <<>>
    /\ pc' = "done"
    /\ UNCHANGED <<backend, tree, todo, codegen, interp>>

RECURSIVE _assign(_, _, _, _)
\* _assign to a Name or a Tuple of targets: the environments, or the raise.
_assign(E, target, value, env) ==
    CASE isinstance(target, "Name") -> [exc |-> "none", E |-> set(E, env, target.id, value)]
      [] isinstance(target, "Tuple") ->
            IF target.elts = <<>> \/ value.items = <<>> THEN [exc |-> "none", E |-> E]
            ELSE LET first == _assign(E, Head(target.elts), Head(value.items), env)
                 IN  IF first.exc # "none" THEN first
                     ELSE _assign(first.E, Tuple(Tail(target.elts)),
                                  ListV(Tail(value.items)), env)
      [] target.k \notin {"Name", "Subscript", "Tuple"} ->
            [exc |-> "InterpreterError", E |-> E]

RECURSIVE AssignAll(_, _, _, _)
\* for target in node.targets: self._assign(target, value, env)
AssignAll(E, targets, value, env) ==
    IF targets = <<>> THEN [exc |-> "none", E |-> E]
    ELSE LET first == _assign(E, Head(targets), value, env)
         IN  IF first.exc # "none" THEN first
             ELSE AssignAll(first.E, Tail(targets), value, env)

\* The callee of a call by name, if evaluating the name yields one of class t.
Calls(E, node, env, t) ==
    /\ isinstance(node, "Call")
    /\ isinstance(node.func, "Name")
    /\ get(E, env, node.func.id).exc = "none"
    /\ get(E, env, node.func.id).value.t = t
CallsFunction(E, node, env) == Calls(E, node, env, "Function")
CallsPrint(E, node, env) ==
    Calls(E, node, env, "builtin") /\ get(E, env, node.func.id).value.name = "print"

ArityAlwaysMatches(args, func) == FALSE

\* len(args) != len(func.params)
ArityMismatch(args, func) == Len(args) # Len(func.params)

\* _eval_call on a call of a user function, up to the loop over func.body:
\* the raise, or the environments with call_env added and the work of the
\* body; `then` is what the caller does with the value the call returns.
EnterCall(E, node, env, then) ==
    LET func == get(E, env, node.func.id).value
        args == EvalArgs(E, node.args, env)
        RECURSIVE bind(_, _, _)
        bind(params, values, call_env) ==
            IF params = <<>> \/ values = <<>> THEN call_env
            ELSE bind(Tail(params), Tail(values),
                      [call_env EXCEPT !.vars = OSet(@, Head(params), Head(values))])
    IN  IF args.exc # "none" THEN [exc |-> args.exc, E |-> E, pushed |-> <<>>]
        ELSE IF ArityMismatch(args.value, func)
            THEN [exc |-> "InterpreterError", E |-> E, pushed |-> <<>>]
        ELSE [exc |-> "none",
              E |-> Append(E, bind(func.params, args.value, Environment(func.closure))),
              pushed |-> ExecItems(func.body, Len(E) + 1) \o <<then>>]

RECURSIVE Unwind(_, _, _)
\* ReturnSignal(value) raised with `stack` pending: it unwinds to the nearest
\* call of a user function (except ReturnSignal in _eval_call), whose caller
\* takes the value; with no call pending it leaves run().
Unwind(E, stack, value) ==
    IF stack = <<>> THEN [exc |-> "ReturnSignal", E |-> E, next |-> <<>>]
    ELSE IF Head(stack).op # "call" THEN Unwind(E, Tail(stack), value)
    ELSE LET then == Head(stack)
         IN  CASE then.use = "Expr" -> [exc |-> "none", E |-> E, next |-> Tail(stack)]
               [] then.use = "Assign" ->
                    LET r == AssignAll(E, then.targets, value, then.env)
                    IN  [exc |-> r.exc, E |-> r.E, next |-> Tail(stack)]
               [] then.use = "Return" -> Unwind(E, Tail(stack), value)

ExecAssign ==
    /\ AtExec("Assign")
    /\ LET node == Head(todo).node
           env == Head(todo).env
       IN  IF CallsFunction(envs, node.value, env)
            THEN LET c == EnterCall(envs, node.value, env,
                                    [op |-> "call", use |-> "Assign",
                                     targets |-> node.targets, env |-> env])
                 IN  ExecStep(c.exc, c.E, stdout, c.pushed \o Tail(todo))
            ELSE LET value == _eval(envs, node.value, env)
                     r == AssignAll(envs, node.targets, value.value, env)
                 IN  IF value.exc # "none" THEN ExecStep(value.exc, envs, stdout, <<>>)
                     ELSE ExecStep(r.exc, r.E, stdout, Tail(todo))

ExecAugAssign ==
    /\ AtExec("AugAssign")
    /\ LET node == Head(todo).node
           env == Head(todo).env
           target_val == _eval(envs, node.target, env)
           value == _eval(envs, node.value, env)
           result == _apply_op(node.op, target_val.value, value.value)
           r == _assign(envs, node.target, result.value, env)
       IN  CASE target_val.exc # "none" -> ExecStep(target_val.exc, envs, stdout, <<>>)
             [] target_val.exc = "none" /\ value.exc # "none" ->
                    ExecStep(value.exc, envs, stdout, <<>>)
             [] target_val.exc = "none" /\ value.exc = "none" /\ result.exc # "none" ->
                    ExecStep(result.exc, envs, stdout, <<>>)
             [] OTHER -> ExecStep(r.exc, r.E, stdout, Tail(todo))

\* The Expr branch: a print, a call of a user function, or an expression
\* whose value is dropped.
ExecExpr ==
    /\ AtExec("Expr")
    /\ LET node == Head(todo).node
           env == Head(todo).env
       IN  CASE CallsPrint(envs, node.value, env) ->
                    LET args == EvalArgs(envs, node.value.args, env)
                    IN  IF args.exc # "none" THEN ExecStep(args.exc, envs, stdout, <<>>)
                        ELSE ExecStep("none", envs,
                                Append(stdout,
                                       Join([i \in 1..Len(args.value) |-> str(args.value[i])],
                                            " ")),
                                Tail(todo))
             [] CallsFunction(envs, node.value, env) ->
                    LET c == EnterCall(envs, node.value, env,
                                       [op |-> "call", use |-> "Expr", env |-> env])
                    IN  ExecStep(c.exc, c.E, stdout, c.pushed \o Tail(todo))
             [] OTHER ->
                    ExecStep(_eval(envs, node.value, env).exc, envs, stdout, Tail(todo))

ExecIf ==
    /\ AtExec("If")
    /\ LET node == Head(todo).node
           env == Head(todo).env
           test == _eval(envs, node.test, env)
       IN  IF test.exc # "none" THEN ExecStep(test.exc, envs, stdout, <<>>)
           ELSE ExecStep("none", envs, stdout,
                    ExecItems(IF Truthy(test.value) THEN node.body ELSE node.orelse, env)
                        \o Tail(todo))

\* One evaluation of the test of a while loop: the body and the test again,
\* or the end of the loop.
ExecWhile ==
    /\ AtExec("While")
    /\ LET node == Head(todo).node
           env == Head(todo).env
           test == _eval(envs, node.test, env)
       IN  IF test.exc # "none" THEN ExecStep(test.exc, envs, stdout, <<>>)
           ELSE ExecStep("none", envs, stdout,
                    IF Truthy(test.value) THEN ExecItems(node.body, env) \o todo
                                          ELSE Tail(todo))

\* iterable = self._eval(node.iter, env)
ExecFor ==
    /\ AtExec("For")
    /\ LET node == Head(todo).node
           env == Head(todo).env
           iterable == _eval(envs, node.iter, env)
       IN  CASE iterable.exc # "none" -> ExecStep(iterable.exc, envs, stdout, <<>>)
             [] iterable.exc = "none" /\ iterable.value.t # "list" ->
                    ExecStep("TypeError", envs, stdout, <<>>)
             [] OTHER ->
                    ExecStep("none", envs, stdout,
                             <<[op |-> "for", node |-> node, items |-> iterable.value.items,
                                env |-> env]>> \o Tail(todo))

\* One turn of `for item in iterable`: the next item is assigned and the
\* body executed, or the loop ends.
ForNext ==
    /\ AtRun("for")
    /\ LET node == Head(todo).node
           env == Head(todo).env
           items == Head(todo).items
           r == _assign(envs, node.target, Head(items), env)
       IN  IF items = <<>> THEN ExecStep("none", envs, stdout, Tail(todo))
           ELSE ExecStep(r.exc, r.E, stdout,
                    ExecItems(node.body, env)
                        \o <<[Head(todo) EXCEPT !.items = Tail(items)]>> \o Tail(todo))

ExecFunctionDef ==
    /\ AtExec("FunctionDef")
    /\ LET node == Head(todo).node
           env == Head(todo).env
       IN  ExecStep("none",
                    set(envs, env, node.name, Function(node.name, ArgNames(node), node.body, env)),
                    stdout, Tail(todo))

\* The Return branch, and what ReturnSignal does to the pending work.
ExecReturn ==
    /\ AtExec("Return")
    /\ LET node == Head(todo).node
           env == Head(todo).env
       IN  IF node.value # None /\ CallsFunction(envs, node.value, env)
            THEN LET c == EnterCall(envs, node.value, env,
                                    [op |-> "call", use |-> "Return", env |-> env])
                 IN  ExecStep(c.exc, c.E, stdout, c.pushed \o Tail(todo))
            ELSE LET value == IF node.value # None THEN _eval(envs, node.value, env)
                                                   ELSE Returns(NoneV)
                     u == Unwind(envs, Tail(todo), value.value)
                 IN  IF value.exc # "none" THEN ExecStep(value.exc, envs, stdout, <<>>)
                     ELSE ExecStep(u.exc, u.E, stdout, u.next)

\* The loop over func.body has ended: _eval_call returns None.
CallReturnsNone ==
    /\ AtRun("call")
    /\ LET u == Unwind(envs, todo, NoneV)
       IN  ExecStep(u.exc, u.E, stdout, u.next)

ExecPass ==
    /\ AtExec("Pass")
    /\ ExecStep("none", envs, stdout, Tail(todo))

\* raise _BreakSignal(): no except clause of the interpreter names it.
ExecBreak ==
    /\ AtExec("Break")
    /\ ExecStep("_BreakSignal", envs, stdout, <<>>)

\* raise _ContinueSignal(): no except clause of the interpreter names it.
ExecContinue ==
    /\ AtExec("Continue")
    /\ ExecStep("_ContinueSignal", envs, stdout, <<>>)

\* The else branch of _exec.
ExecUnsupported ==
    /\ AtRun("exec")
    /\ Head(todo).node.k \notin {"Assign", "AugAssign", "Expr", "If", "While", "For",
                                 "FunctionDef", "Return", "Pass", "Break", "Continue"}
    /\ ExecStep("InterpreterError", envs, stdout, <<>>)

InterpNext ==
    \/ run
    \/ RunReturns
    \/ ExecAssign
    \/ ExecAugAssign
    \/ ExecExpr
    \/ ExecIf
    \/ ExecWhile
    \/ ExecFor
    \/ ForNext
    \/ ExecFunctionDef
    \/ ExecReturn
    \/ CallReturnsNone
    \/ ExecPass
    \/ ExecBreak
    \/ ExecContinue
    \/ ExecUnsupported

\* Interpreter(): an empty global environment; entry.py hands run() the tree.
StartInterpreter(module) ==
    /\ backend = "run"
    /\ tree = module
    /\ pc = "new"
    /\ todo = <<>>
    /\ global_types = EmptyDict
    /\ func_param_types = EmptyDict
    /\ func_return_types = EmptyDict
    /\ func_local_types = EmptyDict
    /\ _current_func = NoFunc
    /\ _declared_vars = {}
    /\ lines = <<>>
    /\ indent = 0
    /\ _needs_math = FALSE
    /\ envs = <<Environment(0)>>
    /\ stdout = <<>>
    /\ exception = "none"

-----------------------------------------------------------------------------
(* The programs compiled.  Each family is every module of a shape built    *)
(* from a pool of statements, up to a bound on the number of statements;   *)
(* RepoPrograms are the programs the repository itself compiles.           *)

SeqsUpTo(S, n) == UNION {[1..m -> S] : m \in 0..n}

Load(id) == Name(id)
Lt(a, b) == Compare(a, <<"Lt">>, <<b>>)
CallStmt(f, args) == ExprStmt(Call(Name(f), args))
Range(args) == Call(Name("range"), args)
Store(id, value) == Assign(<<Name(id)>>, value)
Plain(names) == arguments([i \in 1..Len(names) |-> arg(names[i], None)])

MaxInferStmts == 3

\* Statements of the body of f(a, b).
InferBodyPool ==
    { Store("x", FloatC(150)),
      Store("x", IntC(1)),
      Assign(<<Subscript(Load("a"), Load("b"))>>, FloatC(125)),
      AugAssign(Name("x"), "Add", Load("a")),
      For(Name("x"), Range(<<Load("b")>>), <<Store("y", BinOp(Load("x"), "Div", IntC(2)))>>),
      Return(Load("x")) }

\* Module-level statements.
InferTopPool ==
    { Store("x", FloatC(150)),
      Store("x", IntC(1)),
      CallStmt("f", <<FloatC(150), IntC(1)>>),
      CallStmt("f", <<IntC(1), Load("x")>>),
      If(Lt(Load("x"), IntC(1)), <<AugAssign(Name("x"), "Add", FloatC(150))>>,
                                 <<Store("y", Call(Name("f"), <<Load("x"), IntC(1)>>))>>),
      While(Lt(Load("x"), IntC(3)), <<Store("x", BinOp(Load("x"), "Mult", IntC(2)))>>),
      CallStmt("print", <<Load("x")>>) }

InferParams ==
    { Plain(<<"a", "b">>),
      arguments(<<arg("a", Name("float")), arg("b", None)>>) }

InferPrograms ==
    {Module(<<FunctionDef("f", params, body)>> \o top) :
        params \in InferParams,
        <<body, top>> \in {bt \in SeqsUpTo(InferBodyPool, MaxInferStmts)
                                    \X SeqsUpTo(InferTopPool, MaxInferStmts - 1) :
                            Len(bt[1]) >= 1 /\ Len(bt[1]) + Len(bt[2]) <= MaxInferStmts}}
    \cup {Module(top) : top \in SeqsUpTo(InferTopPool, MaxInferStmts) \ {<<>>}}

\* Two functions, one calling the other with a local or with its parameter,
\* in both orders of definition, and a module-level call.
CalleeBodies ==
    { <<Return(Load("p"))>>,
      <<Store("x", BinOp(Load("p"), "Mult", IntC(2))), Return(Load("x"))>> }
CallerBodies ==
    { <<Store("y", FloatC(150)), Return(Call(Name("g"), <<Load("y")>>))>>,
      <<Store("y", IntC(1)), Return(Call(Name("g"), <<Load("y")>>))>>,
      <<Return(Call(Name("g"), <<Load("a")>>))>>,
      <<Store("a", FloatC(150)), Return(Load("a"))>> }
CallerTops ==
    { <<>>,
      <<CallStmt("f", <<FloatC(150)>>)>>,
      <<CallStmt("f", <<IntC(1)>>)>>,
      <<CallStmt("g", <<FloatC(150)>>)>> }
CallPrograms ==
    UNION {
        LET g == FunctionDef("g", Plain(<<"p">>), gb)
            f == FunctionDef("f", Plain(<<"a">>), fb)
        IN  {Module(<<g, f>> \o top), Module(<<f, g>> \o top)}
        : <<gb, fb, top>> \in CalleeBodies \X CallerBodies \X CallerTops }

InitInfer ==
    \E module \in InferPrograms \cup CallPrograms : Start("base", module)

SpecInfer == InitInfer /\ [][InferNext]_vars

-----------------------------------------------------------------------------
(* The programs of the whole pipeline (SpecEmit).                          *)

MaxKernelStmts == 2
MaxEmitStmts == 3
MaxFuncs == 2

Tid == Load("tid")

\* Statements of the body of a kernel over the parameters a, n and tid.
KernelBodyPool ==
    { If(Lt(Tid, Load("n")), <<Assign(<<Subscript(Load("a"), Tid)>>, FloatC(150))>>, <<>>),
      If(Lt(BinOp(Tid, "Add", IntC(1)), Load("n")), <<Pass>>, <<>>),
      If(Compare(Load("a"), <<"LtE", "Lt">>, <<Tid, Load("n")>>), <<Return(None)>>, <<>>),
      Store("x", BinOp(Load("a"), "Mult", Load("n"))),
      CallStmt("print", <<Tid>>) }

\* tid first, in the middle, last, and absent (a helper).
KernelParamLists ==
    { Plain(<<"tid", "a", "n">>), Plain(<<"a", "tid", "n">>), Plain(<<"a", "n", "tid">>),
      Plain(<<"a", "n">>) }

\* Module-level statements after the kernel: a call of it with a float
\* argument in no position or in one, or a print.
KernelTopPool ==
    { <<>>,
      <<CallStmt("k", <<IntC(1), IntC(2), IntC(3)>>)>>,
      <<CallStmt("k", <<FloatC(150), IntC(2), IntC(3)>>)>>,
      <<CallStmt("k", <<IntC(1), FloatC(250), IntC(3)>>)>>,
      <<CallStmt("k", <<IntC(1), IntC(2), FloatC(350)>>)>>,
      <<CallStmt("print", <<IntC(1)>>)>> }

KernelPrograms ==
    {Module(<<FunctionDef("k", params, body)>> \o top) :
        params \in KernelParamLists,
        body \in SeqsUpTo(KernelBodyPool, MaxKernelStmts) \ {<<>>},
        top \in KernelTopPool}

\* Statements over a local x and a parameter a.
StmtPool ==
    { Store("x", IntC(1)),
      Store("x", FloatC(150)),
      For(Name("x"), Range(<<IntC(3)>>), <<AugAssign(Name("x"), "Add", IntC(1))>>),
      If(Lt(Load("a"), IntC(1)),
         <<Store("x", IntC(1))>>,
         <<If(Lt(Load("a"), IntC(2)), <<Pass>>, <<Store("x", IntC(2))>>)>>),
      While(Lt(Load("x"), IntC(3)), <<Break>>),
      CallStmt("print", <<Load("x")>>) }

StmtSeqs == SeqsUpTo(StmtPool, MaxEmitStmts) \ {<<>>}

\* The same statements as a helper's body, as a kernel's body, at module level.
HelperPrograms ==
    {Module(<<FunctionDef("f", Plain(<<"a">>), body \o <<Return(Load("x"))>>)>>) :
        body \in StmtSeqs}
StmtKernelPrograms ==
    {Module(<<FunctionDef("k", Plain(<<"a", "tid">>), body)>>) : body \in StmtSeqs}
MainPrograms == {Module(body) : body \in StmtSeqs}

\* Modules of several small functions, of the same name or not.
SmallFunctions ==
    {FunctionDef(name, params, <<Return(Load("a"))>>) :
        name \in {"f", "g"},
        params \in {Plain(<<"a">>), Plain(<<"a", "tid">>), Plain(<<"tid", "a">>)}}
FunctionPrograms == {Module(fs) : fs \in SeqsUpTo(SmallFunctions, MaxFuncs) \ {<<>>}}

\* Programs of the repository: the kernels of tests/test_codegen_metal_output.py,
\* tests/test_codegen_base_inference.py and tests/test_metal_kernel_decorator.py,
\* DEMO_PROGRAM of entry.py, the program of tests/test_interpreter_functions.py,
\* and a module that imports before it defines a kernel, as sph_simulation.py.
Saxpy ==
    Module(<<FunctionDef("saxpy",
                arguments(<<arg("a", Name("float")), arg("x", None), arg("y", None),
                            arg("out", None), arg("n", None), arg("tid", None)>>),
                <<If(Lt(Tid, Load("n")),
                     <<Assign(<<Subscript(Load("out"), Tid)>>,
                              BinOp(BinOp(Load("a"), "Mult", Subscript(Load("x"), Tid)),
                                    "Add", Subscript(Load("y"), Tid)))>>,
                     <<>>)>>)>>)
Bad == Module(<<FunctionDef("bad", Plain(<<"tid">>), <<CallStmt("print", <<Tid>>)>>)>>)
KMass ==
    Module(<<FunctionDef("k", arguments(<<arg("mass", Name("float")), arg("n", None)>>),
                <<Store("x", BinOp(Load("mass"), "Div", Load("n"))), Return(Load("x"))>>)>>)
KBuf ==
    Module(<<FunctionDef("k", Plain(<<"buf", "tid">>),
                <<Assign(<<Subscript(Load("buf"), Tid)>>, FloatC(125))>>)>>)
Inc ==
    Module(<<FunctionDef("inc", Plain(<<"buf", "n", "tid">>),
                <<If(Lt(Tid, Load("n")),
                     <<Assign(<<Subscript(Load("buf"), Tid)>>,
                              BinOp(Subscript(Load("buf"), Tid), "Add", IntC(1)))>>,
                     <<>>)>>)>>)
Demo ==
    Module(<<Store("a", IntC(0)), Store("b", IntC(1)),
             While(Lt(Load("a"), IntC(100)),
                   <<CallStmt("print", <<Load("a")>>),
                     Store("temp", Load("b")),
                     Store("b", BinOp(Load("a"), "Add", Load("b"))),
                     Store("a", Load("temp"))>>)>>)
MulAdd ==
    Module(<<FunctionDef("mul_add", Plain(<<"a", "b", "c">>),
                <<Return(BinOp(BinOp(Load("a"), "Mult", Load("b")), "Add", Load("c")))>>),
             CallStmt("print", <<Call(Name("mul_add"), <<IntC(2), IntC(3), IntC(4)>>)>>)>>)
Import == [k |-> "Import"]
Importing ==
    Module(<<Import,
             FunctionDef("scale", Plain(<<"buf", "s", "tid">>),
                <<Assign(<<Subscript(Load("buf"), Tid)>>,
                         BinOp(Subscript(Load("buf"), Tid), "Mult", Load("s")))>>),
             CallStmt("scale", <<FloatC(150), FloatC(250), IntC(0)>>)>>)

RepoPrograms == {Saxpy, Bad, KMass, KBuf, Inc, Demo, MulAdd, Importing}

\* Arithmetic over two variables, printed: at module level, with a and b
\* assigned literals, or in a function f(a, b) called with the literals.
Literals == {IntC(2), FloatC(150)}
Operators == {"Add", "Mult", "Pow", "Div", "FloorDiv", "Mod"}
PrintArgs(e) == { <<>>, <<IntC(1)>>, <<Load("x")>>, <<Load("x"), IntC(1), FloatC(250)>>, <<e>> }
ExprPrograms ==
    UNION {
        LET e == BinOp(Load("a"), op, Load("b"))
        IN  { Module(<<Store("a", l1), Store("b", l2), Store("x", e),
                       CallStmt("print", args)>>) : args \in PrintArgs(e) }
            \cup
            { Module(<<FunctionDef("f", Plain(<<"a", "b">>),
                            <<Store("x", e), CallStmt("print", args), Return(Load("x"))>>),
                       Store("y", Call(Name("f"), <<l1, l2>>))>>) : args \in PrintArgs(e) }
        : <<l1, l2, op>> \in Literals \X Literals \X Operators }

\* Counted loops over every arity of range, with steps of every shape, whose
\* body assigns the loop variable.
Neg(e) == UnaryOp("USub", e)
RangeArgLists ==
    { <<Load("n")>>,
      <<IntC(1), Load("n")>>,
      <<IntC(0), Load("n"), IntC(2)>>,
      <<Load("n"), IntC(0), Neg(IntC(1))>>,
      <<IntC(0), Load("n"), Load("s")>>,
      <<IntC(0), Load("n"), Neg(Load("s"))>>,
      <<Load("n"), IntC(0), Neg(Neg(IntC(1)))>> }
ForPrograms ==
    UNION {
        LET loop == For(Name("i"), Range(args),
                        <<Store("i", BinOp(Load("i"), "Add", IntC(1)))>>)
        IN  { Module(<<Store("n", IntC(3)), Store("s", IntC(1)), loop>>),
              Module(<<FunctionDef("f", Plain(<<"n", "s">>), <<loop, Return(Load("n"))>>)>>),
              Module(<<FunctionDef("k", Plain(<<"n", "s", "tid">>), <<loop>>)>>) }
        : args \in RangeArgLists }

\* Statements no branch of _gen_stmt lowers, between two assignments of x: a
\* for over a name, a tuple-target assignment, a nested function definition
\* and an import, in a function's body, a kernel's body and at module level.
UnsupportedPool ==
    { For(Name("i"), Load("a"), <<Store("y", IntC(1))>>),
      Assign(<<Tuple(<<Name("y"), Name("z")>>)>>, Tuple(<<IntC(1), IntC(2)>>)),
      FunctionDef("g", Plain(<<"b">>), <<Return(Load("b"))>>),
      Import }
UnsupportedPrograms ==
    UNION {
        LET body == <<Store("x", IntC(1)), u, Store("x", IntC(2))>>
        IN  { Module(<<FunctionDef("f", Plain(<<"a">>), body \o <<Return(Load("x"))>>)>>),
              Module(<<FunctionDef("k", Plain(<<"a", "tid">>), body)>>),
              Module(IF isinstance(u, "FunctionDef") THEN <<Store("x", IntC(1))>> ELSE body) }
        : u \in UnsupportedPool }

\* Conditionals nested in bodies and in else branches: an if whose body is
\* pass or one of `bodies` and whose else branch is absent, pass, one of
\* `elses` alone (the elif shape) or one of `elses` followed by pass.
IfShapes(bodies, elses) ==
    { If(Lt(Load("a"), IntC(1)), body, orelse) :
        body \in {<<Pass>>} \cup {<<i>> : i \in bodies},
        orelse \in {<<>>, <<Pass>>} \cup {<<i>> : i \in elses}
                    \cup {<<i, Pass>> : i \in elses} }
IfLeaves == IfShapes({}, {})
IfNested == IfShapes(IfLeaves, IfLeaves)
IfDeep == IfShapes(IfLeaves, IfNested)
IfPrograms ==
    UNION {
        { Module(<<s, Store("x", IntC(1))>>),
          Module(<<FunctionDef("f", Plain(<<"a">>), <<s, Return(Load("a"))>>)>>),
          Module(<<FunctionDef("k", Plain(<<"a", "tid">>), <<s, Store("x", IntC(1))>>)>>) }
        : s \in IfLeaves \cup IfNested \cup IfDeep }

\* Two functions or kernels and a module level that assign the same names,
\* a parameter of one being a local of the other.
ScopeFunctions ==
    { FunctionDef("f", Plain(<<"a">>),
        <<Store("a", IntC(1)), Store("x", Load("a")), Store("x", IntC(2)), Return(Load("x"))>>),
      FunctionDef("g", Plain(<<"x">>),
        <<Store("x", IntC(2)), Store("a", Load("x")), Return(Load("a"))>>),
      FunctionDef("k", Plain(<<"a", "tid">>),
        <<Store("a", IntC(1)), Store("x", Load("a")), Store("tid", IntC(0))>>),
      FunctionDef("m", Plain(<<"x", "tid">>),
        <<Store("x", IntC(2)), Store("a", Load("x"))>>) }
ScopePrograms ==
    { Module(<<f1, f2, Store("x", IntC(3)), Store("a", IntC(4)), Store("x", IntC(5))>>) :
        f1, f2 \in ScopeFunctions }

\* An integer as the parser reads its literal: a negative one is the
\* negation of a constant.
Literal(n) == IF n < 0 THEN Neg(IntC(0 - n)) ELSE IntC(n)

\* Floor division and modulo of two integer variables, over every pair of
\* integers up to a bound in magnitude, zero divisors included.
MaxOperand == 3
Operand == (0 - MaxOperand)..MaxOperand
DivMod(a, b) ==
    Module(<<Store("a", Literal(a)), Store("b", Literal(b)),
             Store("q", BinOp(Load("a"), "FloorDiv", Load("b"))),
             Store("r", BinOp(Load("a"), "Mod", Load("b"))),
             CallStmt("print", <<Load("q"), Load("r")>>)>>)
DivModPrograms == {DivMod(a, b) : a, b \in Operand}

\* Comparison chains over three integer variables, and chains of one and of
\* three operators.
MaxChainOperand == 1
ChainOperand == (0 - MaxChainOperand)..MaxChainOperand
ChainOps == {<<"Lt", "Lt">>, <<"LtE", "Lt">>, <<"Gt", "Gt">>, <<"Eq", "NotEq">>}
Chain(a, b, c, ops) ==
    Module(<<Store("a", Literal(a)), Store("b", Literal(b)), Store("c", Literal(c)),
             Store("r", Compare(Load("a"), ops, <<Load("b"), Load("c")>>)),
             CallStmt("print", <<Load("r")>>)>>)
ChainPrograms ==
    {Chain(a, b, c, ops) : a, b, c \in ChainOperand, ops \in ChainOps}
        \cup { Module(<<Store("r", Compare(IntC(1), <<"Lt">>, <<IntC(2)>>))>>),
               Module(<<Store("r", Compare(IntC(0), <<"LtE", "Lt", "GtE">>,
                                           <<IntC(1), IntC(2), IntC(1)>>))>>) }

EmitPrograms(b) ==
    HelperPrograms \cup MainPrograms \cup RepoPrograms \cup ForPrograms
        \cup UnsupportedPrograms \cup IfPrograms \cup ScopePrograms
        \cup (IF b = "c" THEN DivModPrograms \cup ChainPrograms ELSE {})
        \cup (IF b = "c" THEN ExprPrograms ELSE {})
        \cup FunctionPrograms
        \cup (IF b = "metal" THEN KernelPrograms \cup StmtKernelPrograms ELSE {})

InitEmit ==
    \E b \in {"c", "metal"} : \E module \in EmitPrograms(b) : Start(b, module)

Next == InferNext \/ EmitNext

SpecEmit == InitEmit /\ [][Next]_vars

-----------------------------------------------------------------------------
(* The programs interpreted.                                               *)

Eq(a, b) == Compare(a, <<"Eq">>, <<b>>)
Add(a, b) == BinOp(a, "Add", b)

\* Loops that count i up to 3 and print what they reach, the body leaving
\* by `signal` (break, continue or pass) when i is 2: a while loop, a for
\* loop over a range, and the for loop nested in another.
WhileLoop(signal) ==
    <<Store("i", IntC(0)),
      While(Lt(Load("i"), IntC(3)),
            <<Store("i", Add(Load("i"), IntC(1))),
              If(Eq(Load("i"), IntC(2)), <<signal>>, <<>>),
              CallStmt("print", <<Load("i")>>)>>),
      CallStmt("print", <<Load("i")>>)>>
ForLoop(signal) ==
    <<Store("s", IntC(0)),
      For(Name("i"), Range(<<IntC(1), IntC(4)>>),
          <<If(Eq(Load("i"), IntC(2)), <<signal>>, <<>>),
            AugAssign(Name("s"), "Add", Load("i")),
            CallStmt("print", <<Load("i"), Load("s")>>)>>),
      CallStmt("print", <<Load("s")>>)>>
LoopPrograms ==
    UNION { { Module(WhileLoop(signal)),
              Module(ForLoop(signal)),
              Module(<<For(Name("j"), Range(<<IntC(2)>>), ForLoop(signal)),
                       CallStmt("print", <<Load("j")>>)>>),
              Module(<<FunctionDef("f", Plain(<<>>), WhileLoop(signal) \o <<Return(Load("i"))>>),
                       Store("r", Call(Name("f"), <<>>)),
                       CallStmt("print", <<Load("r")>>)>>) }
            : signal \in {Break, Continue, Pass} }

\* Calls of f(x, y) with zero to three arguments, as a statement, as the
\* value of an assignment and as the value of a return in g(a), at module
\* level, between two assignments of z; f assigns z and w too.
F ==
    FunctionDef("f", Plain(<<"x", "y">>),
        <<Store("z", Add(Load("x"), Load("y"))), Store("w", IntC(7)),
          CallStmt("print", <<Load("z")>>), Return(Load("z"))>>)
Args == {<<>>, <<IntC(1)>>, <<IntC(1), IntC(2)>>, <<IntC(1), IntC(2), IntC(3)>>}
ArityPrograms ==
    UNION {
        LET call == Call(Name("f"), args)
        IN  { Module(<<F, Store("z", IntC(5)), ExprStmt(call), Store("z", IntC(6))>>),
              Module(<<F, Store("z", IntC(5)), Store("w", call), Store("z", IntC(6))>>),
              Module(<<F, FunctionDef("g", Plain(<<"a">>), <<Store("z", IntC(4)), Return(call)>>),
                       Store("z", IntC(5)), Store("w", Call(Name("g"), <<IntC(0)>>)),
                       Store("z", IntC(6))>>) }
        : args \in Args }

\* Programs of the repository's tests, a function without a return, a
\* return and an import at module level, an undefined name.
OtherPrograms ==
    { Module(<<Store("a", Add(IntC(2), BinOp(IntC(3), "Mult", IntC(4)))),
               Store("b", BinOp(Load("a"), "Sub", IntC(5))),
               CallStmt("print", <<Load("a")>>), CallStmt("print", <<Load("b")>>)>>),
      Module(<<CallStmt("print", <<BinOp(IntC(7), "FloorDiv", IntC(2))>>),
               CallStmt("print", <<BinOp(IntC(7), "Mod", IntC(2))>>),
               CallStmt("print", <<BinOp(IntC(2), "Pow", IntC(5))>>)>>),
      Module(<<FunctionDef("h", Plain(<<>>), <<Pass>>),
               Store("r", Call(Name("h"), <<>>)), CallStmt("print", <<Load("r")>>)>>),
      Module(<<Assign(<<Tuple(<<Name("y"), Name("z")>>)>>, Range(<<IntC(2)>>)),
               CallStmt("print", <<Load("y"), Load("z")>>)>>),
      Module(<<Store("x", IntC(1)), Return(Load("x"))>>),
      Module(<<Store("x", IntC(1)), Import, Store("x", IntC(2))>>),
      Module(<<Store("x", Load("y"))>>) }

InterpPrograms ==
    {Demo} \cup LoopPrograms \cup ArityPrograms \cup OtherPrograms
        \cup DivModPrograms \cup ChainPrograms

InitInterp == \E module \in InterpPrograms : StartInterpreter(module)

SpecInterp == InitInterp /\ [][InterpNext]_vars

\* The interpreter runs alone: a step that can be taken is taken.
SpecInterpLive == SpecInterp /\ WF_vars(InterpNext)

-----------------------------------------------------------------------------
(* Properties of the inference passes (checked under SpecInfer).           *)

\* The statement pass (_infer_types) has returned.
StatementPassDone == pc # "infer"

Params(f) == DictGet(func_param_types, f, <<>>)

\* The subscript assignments p[i] = e inside function node f whose container
\* p is a parameter of f, as <<p, e>>.
SubscriptWrites(f) ==
    UNION {{<<s.targets[i].value.id, s.value>> : i \in
                {j \in 1..Len(s.targets) :
                    /\ isinstance(s.targets[j], "Subscript")
                    /\ isinstance(s.targets[j].value, "Name")
                    /\ s.targets[j].value.id \in SeqToSet(ArgNames(f))}} :
           s \in {n \in SeqToSet(walk(f)) : isinstance(n, "Assign")}}

\* C1: after the statement pass, every parameter p of a function that is the
\* container of a subscript assignment p[i] = e in the function's body, with
\* e inferred FLOAT in that function, has type FLOAT in the params table.
C1_SubscriptWritePromotes ==
    StatementPassDone =>
        \A f \in SeqToSet(FuncNodes(tree)) : \A w \in SubscriptWrites(f) :
            InferExprTypeIn(f.name, w[2]) = DOUBLE
                => OGet(Params(f.name), w[1], INT) = DOUBLE

\* No entry of the params table is removed, renamed or taken from FLOAT to INT.
ParamsNotLowered ==
    \A f \in DOMAIN func_param_types :
        /\ f \in DOMAIN func_param_types'
        /\ OKeys(func_param_types'[f]) = OKeys(func_param_types[f])
        /\ \A i \in 1..Len(func_param_types[f]) :
                func_param_types[f][i].val = DOUBLE => func_param_types'[f][i].val = DOUBLE

TableNames ==
    DOMAIN global_types
        \cup UNION {DOMAIN func_local_types[f] : f \in DOMAIN func_local_types}
        \cup UNION {SeqToSet(OKeys(func_param_types[f])) : f \in DOMAIN func_param_types}

\* The type looked up for a name in a scope is not taken from FLOAT to INT.
LookupNotLowered ==
    \A f \in DOMAIN func_param_types \cup {NoFunc} : \A v \in TableNames :
        TypeOfVarIn(f, v) = DOUBLE => TypeOfVarIn(f, v)' = DOUBLE

\* C9: a step of call-site refinement changes no globals, locals or returns
\* entry, takes no params entry from FLOAT to INT, and so leaves the type of
\* every variable and parameter at or above its type after the statement pass.
C9_RefinementMonotone ==
    [][pc = "refine" =>
        /\ ParamsNotLowered
        /\ LookupNotLowered
        /\ global_types' = global_types
        /\ func_local_types' = func_local_types
        /\ func_return_types' = func_return_types]_vars

\* Refinement has run and has promoted a parameter to FLOAT.
C9_Witness ==
    /\ pc = "inferred"
    /\ \E f \in DOMAIN func_param_types : \E i \in 1..Len(func_param_types[f]) :
            func_param_types[f][i].val = DOUBLE

\* No entry of the globals or locals tables is taken from FLOAT to INT.
VarsNotLowered ==
    /\ \A n \in DOMAIN global_types \cap DOMAIN global_types' :
            global_types[n] = DOUBLE => global_types'[n] = DOUBLE
    /\ \A f \in DOMAIN func_local_types \cap DOMAIN func_local_types' :
            \A n \in DOMAIN func_local_types[f] \cap DOMAIN func_local_types'[f] :
                func_local_types[f][n] = DOUBLE => func_local_types'[f][n] = DOUBLE

\* C10: once the type recorded for a name in a scope is FLOAT, no later step
\* of the statement pass or of refinement sets it back to INT.
C10_InferenceMonotone ==
    [][VarsNotLowered /\ ParamsNotLowered]_vars


-----------------------------------------------------------------------------
(* Properties of the emitted text (checked under SpecEmit).                *)

Compiled == pc = "done"
Aborted == pc = "error"
Gpu == backend = "metal"

\* What the text shows of a kernel's parameter list: one entry per
\* parameter, with the template's prefix, the name and the binding index
\* ("none" where the entry carries the thread-position attribute instead).
RECURSIVE ParseParams(_)
ParseParams(toks) ==
    IF Len(toks) < 3 THEN <<>>
    ELSE IF toks[3] = " [[thread_position_in_grid]]"
        THEN <<[prefix |-> toks[1], name |-> toks[2], index |-> "none"]>>
                \o ParseParams(SubSeq(toks, 5, Len(toks)))
        ELSE <<[prefix |-> toks[1], name |-> toks[2], index |-> toks[4]]>>
                \o ParseParams(SubSeq(toks, 7, Len(toks)))

KernelHeaders == {i \in 1..Len(lines) : lines[i].toks[1] = "kernel void "}
HelperHeaders ==
    {i \in 1..Len(lines) :
        /\ lines[i].indent = 0
        /\ Len(lines[i].toks) = 6
        /\ lines[i].toks[4] = "("
        /\ lines[i].toks[6] = ") {"}
EmittedKernels ==
    {[at |-> i, name |-> lines[i].toks[2], params |-> ParseParams(lines[i + 1].toks)] :
        i \in KernelHeaders}
EntryNames(params) == [j \in 1..Len(params) |-> params[j].name]

HasTid(node) == \E i \in 1..Len(node.args.args) : node.args.args[i].arg = "tid"
Definitions == SeqToSet(FuncNodes(tree))
\* The definitions a kernel of the text can come from.
SourcesOf(ek) ==
    {node \in Definitions : node.name = ek.name /\ ArgNames(node) = EntryNames(ek.params)}
ParamType(node, name) == OGet(DictGet(func_param_types, node.name, <<>>), name, INT)
SubscriptedIn(node, name) ==
    \E n \in SeqToSet(walk(node)) :
        isinstance(n, "Subscript") /\ isinstance(n.value, "Name") /\ n.value.id = name
Operands(c) == SeqToSet(<<c.left>> \o c.comparators)
IsOperand(c, name) == \E o \in Operands(c) : isinstance(o, "Name") /\ o.id = name
Mentions(c, name) ==
    \E o \in Operands(c) : \E n \in SeqToSet(walk(o)) : isinstance(n, "Name") /\ n.id = name
Comparisons(node) == {c \in SeqToSet(walk(node)) : isinstance(c, "Compare")}
ComparedAgainstTid(node, name) ==
    \E c \in Comparisons(node) : IsOperand(c, name) /\ IsOperand(c, "tid")
InComparisonNamingTid(node, name) ==
    \E c \in Comparisons(node) : IsOperand(c, name) /\ Mentions(c, "tid")

AnnotatedFloat(a) == isinstance(a.annotation, "Name") /\ a.annotation.id = "float"

\* C2: once the statement pass is over, every parameter annotated `float`
\* is FLOAT in its function's parameter table; and in compiled GPU text
\* such a parameter of a kernel, when it is not tid and is nowhere
\* subscripted, is emitted as `constant float& name`.
C2_AnnotatedFloatParam ==
    /\ StatementPassDone =>
        \A node \in Definitions : \A i \in 1..Len(node.args.args) :
            AnnotatedFloat(node.args.args[i]) =>
                ParamType(node, node.args.args[i].arg) = DOUBLE
    /\ Gpu /\ Compiled =>
        \A ek \in EmittedKernels : \A node \in SourcesOf(ek) :
            \A i \in 1..Len(node.args.args) :
                /\ AnnotatedFloat(node.args.args[i])
                /\ node.args.args[i].arg # "tid"
                /\ ~SubscriptedIn(node, node.args.args[i].arg)
                => ek.params[i].prefix = "    constant float& "

\* The expressions that emitting a body hands to _gen_expr.
RECURSIVE LoweredBody(_)
RECURSIVE LoweredStmt(_)
LoweredBody(body) == UNION {LoweredStmt(body[i]) : i \in 1..Len(body)}
LoweredStmt(s) ==
    CASE isinstance(s, "Assign") ->
            (IF \E i \in 1..Len(s.targets) : s.targets[i].k \in {"Name", "Subscript"}
                THEN {s.value} ELSE {})
            \cup {s.targets[i] : i \in {i \in 1..Len(s.targets) :
                                          isinstance(s.targets[i], "Subscript")}}
      [] isinstance(s, "AugAssign") ->
            {s.value} \cup (IF isinstance(s.target, "Subscript") THEN {s.target} ELSE {})
      [] isinstance(s, "Expr") -> {s.value}
      [] isinstance(s, "If") -> {s.test} \cup LoweredBody(s.body) \cup LoweredBody(s.orelse)
      [] isinstance(s, "While") -> {s.test} \cup LoweredBody(s.body)
      [] isinstance(s, "For") ->
            (IF isinstance(s.target, "Subscript") THEN {s.target} ELSE {})
            \cup (IF IsRangeCall(s.iter) /\ Len(s.iter.args) <= 3
                    THEN SeqToSet(s.iter.args) ELSE {})
            \cup LoweredBody(s.body)
      [] isinstance(s, "Return") -> IF s.value = None THEN {} ELSE {s.value}
      [] OTHER -> {}
HasPrint(expr) == \E n \in SeqToSet(walk(expr)) : IsPrintCall(n)
PrintLowered(node) == \E e \in LoweredBody(node.body) : HasPrint(e)

\* C3 (original): the GPU backend compiles no module that contains a call
\* to print anywhere, a module-level statement included.
C3_AnyPrintAborts == Gpu /\ Compiled => ~HasPrint(tree)

\* C3 (amended): the GPU backend compiles no module in which the body of a
\* top-level function (kernel or helper) has a print call among the
\* expressions it emits, and it aborts for no other reason; module-level
\* statements are not emitted, so a print call there does not abort.
C3_PrintInFunctionAborts ==
    Gpu => /\ Compiled => \A node \in Definitions : ~PrintLowered(node)
           /\ Aborted => \E node \in Definitions : PrintLowered(node)

C3_Witness ==
    /\ Gpu /\ Aborted
    /\ \E node \in Definitions : ~HasTid(node) /\ PrintLowered(node)

\* C4: in compiled GPU text every top-level function definition has exactly
\* one header, a kernel's when its parameter list contains tid and a
\* helper's when it does not, and there is no other header.
C4_EachFunctionOnce ==
    Gpu /\ Compiled =>
        LET Count(name, kernel) ==
                Len(SelectSeq(FuncNodes(tree),
                        LAMBDA n : n.name = name /\ (HasTid(n) <=> kernel)))
            names == {lines[i].toks[2] : i \in KernelHeaders}
                        \cup {lines[i].toks[3] : i \in HelperHeaders}
                        \cup {node.name : node \in Definitions}
        IN  \A name \in names :
                /\ Cardinality({i \in KernelHeaders : lines[i].toks[2] = name})
                        = Count(name, TRUE)
                /\ Cardinality({i \in HelperHeaders : lines[i].toks[3] = name})
                        = Count(name, FALSE)

C4_Witness ==
    /\ Gpu /\ Compiled
    /\ KernelHeaders # {} /\ HelperHeaders # {}
    /\ \E node \in Definitions :
            HasTid(node) /\ ArgNames(node)[Len(ArgNames(node))] # "tid"

\* C5: in every emitted kernel the entries follow the declaration order of
\* the parameters, the non-tid entries carry the binding indices 0, 1, 2, ...
\* in that order, and the tid entry carries none.
C5_BindingIndices ==
    \A ek \in EmittedKernels :
        /\ SourcesOf(ek) # {}
        /\ \A j \in 1..Len(ek.params) :
              IF ek.params[j].name = "tid"
                THEN ek.params[j].index = "none"
                ELSE ek.params[j].index =
                        ToString(Cardinality({m \in 1..(j - 1) : ek.params[m].name # "tid"}))

C5_Witness ==
    /\ Compiled
    /\ \E ek \in EmittedKernels :
          /\ Len(ek.params) = 3
          /\ ek.params[2].name = "tid"
          /\ ek.params[3].index = "1"

\* The prefix the priority order gives a parameter: tid, then a subscripted
\* buffer (float or int by inferred type), then a FLOAT scalar, then a
\* scalar compared against tid (unsigned), then a signed scalar.
ExpectedPrefix(node, name) ==
    IF name = "tid" THEN "    uint "
    ELSE IF SubscriptedIn(node, name)
        THEN (IF ParamType(node, name) = DOUBLE
                THEN "    device float* " ELSE "    device int* ")
    ELSE IF ParamType(node, name) = DOUBLE THEN "    constant float& "
    ELSE IF ComparedAgainstTid(node, name) THEN "    constant uint& "
    ELSE "    constant int& "

\* C6: every entry of an emitted kernel has the form its parameter gets
\* from the priority order, and the entries are in declaration order.
C6_ClassificationPriority ==
    \A ek \in EmittedKernels :
        /\ SourcesOf(ek) # {}
        /\ \A node \in SourcesOf(ek) : \A j \in 1..Len(ek.params) :
              ek.params[j].prefix = ExpectedPrefix(node, ek.params[j].name)

\* A FLOAT parameter that is compared against tid, emitted as a float scalar.
C6_Witness ==
    /\ Compiled
    /\ \E ek \in EmittedKernels : \E node \in SourcesOf(ek) : \E j \in 1..Len(ek.params) :
          /\ ParamType(node, ek.params[j].name) = DOUBLE
          /\ ComparedAgainstTid(node, ek.params[j].name)
          /\ ~SubscriptedIn(node, ek.params[j].name)
          /\ ek.params[j].prefix = "    constant float& "

\* C7: an INT parameter of a kernel that is not tid and is nowhere
\* subscripted is emitted as an unsigned scalar exactly when it is an
\* operand of a comparison that names tid, be it as an operand or inside
\* one (tid + 1 < n), and as a signed scalar otherwise.
C7_TidComparisonMakesUnsigned ==
    \A ek \in EmittedKernels : \A node \in SourcesOf(ek) : \A j \in 1..Len(ek.params) :
        LET name == ek.params[j].name
        IN  name # "tid" /\ ~SubscriptedIn(node, name) /\ ParamType(node, name) = INT
            => ek.params[j].prefix =
                    IF InComparisonNamingTid(node, name)
                        THEN "    constant uint& " ELSE "    constant int& "

\* The lines of the unit (function, kernel or main) being emitted.
IsUnitHeader(l) ==
    l.indent = 0 /\ (\/ l.toks[1] = "kernel void "
                     \/ l.toks = <<"int main() {">>
                     \/ Len(l.toks) = 6 /\ l.toks[6] = ") {")
UnitStart ==
    LET hs == {i \in 1..Len(lines) : IsUnitHeader(lines[i])}
    IN  IF hs = {} THEN 0 ELSE CHOOSE i \in hs : \A h \in hs : h <= i
Unit == (UnitStart + 1)..Len(lines)
AssignDeclarators ==
    {i \in Unit : /\ Len(lines[i].toks) = 6
                  /\ lines[i].toks[2] = " "
                  /\ lines[i].toks[4] = " = "
                  /\ lines[i].toks[6] = ";"}
ForDeclarators == {i \in Unit : lines[i].toks[1] = "for ("}
BareAssignments ==
    {i \in Unit : Len(lines[i].toks) = 4 /\ lines[i].toks[2] = " = " /\ lines[i].toks[4] = ";"}
DeclaredName(i) == IF i \in ForDeclarators THEN lines[i].toks[4] ELSE lines[i].toks[3]

-----------------------------------------------------------------------------
(* Properties of expression typing and of the C text (SpecEmit).           *)

Nodes == SeqToSet(walk(tree))
BinOps == {n \in Nodes : isinstance(n, "BinOp")}
Scopes == {NoFunc} \cup {node.name : node \in Definitions}

\* C11: in every scope and at every moment, a binary operation is typed
\* FLOAT when it is a true division, INT when it is a floor division, and
\* otherwise with its operands' common type when they agree and FLOAT when
\* they differ (pow included).
C11_FloatContagion ==
    \A cur \in Scopes : \A n \in BinOps :
        LET lt == InferExprTypeIn(cur, n.left)
            rt == InferExprTypeIn(cur, n.right)
            t == InferExprTypeIn(cur, n)
        IN  CASE n.op = "Div" -> t = DOUBLE
              [] n.op = "FloorDiv" -> t = INT
              [] OTHER -> t = (IF lt = rt THEN lt ELSE DOUBLE)

\* The statement pass has typed x from a floor division with a FLOAT operand
\* (INT), and from a pow of mixed operands (FLOAT).
C11_Witness ==
    /\ pc = "refine"
    /\ \E n \in BinOps :
          /\ InferExprTypeIn(NoFunc, n.left) # InferExprTypeIn(NoFunc, n.right)
          /\ \/ n.op = "FloorDiv" /\ DictGet(global_types, "x", "none") = INT
             \/ n.op = "Pow" /\ DictGet(global_types, "x", "none") = DOUBLE
          /\ Store("x", n) \in SeqToSet(tree.body)

CBackend == backend = "c"
Emitting == pc \in {"emit", "done", "error"}
MathHeader == <<"#include <math.h>">>
StdioHeader == <<"#include <stdio.h>">>
HeaderLines(h) == {i \in 1..Len(lines) : lines[i].toks = h}
PowNodes == {n \in Nodes : isinstance(n, "BinOp") /\ n.op = "Pow"}

\* C12: from the first emitted line on, the C text starts with the standard
\* I/O header, and the math header is in it (once, as its second line) if
\* and only if the module has a power operation somewhere, at module level
\* or in a function body.
C12_MathHeader ==
    CBackend /\ Emitting =>
        /\ HeaderLines(StdioHeader) = {1}
        /\ HeaderLines(MathHeader) = (IF PowNodes # {} THEN {2} ELSE {})

\* A compiled module whose only power operation is in a function body.
C12_Witness ==
    /\ CBackend /\ Compiled
    /\ HeaderLines(MathHeader) = {2}
    /\ \E node \in Definitions : \E n \in SeqToSet(walk(node)) : n \in PowNodes
    /\ \A i \in 1..Len(TopLevel(tree)) :
            SeqToSet(walk(TopLevel(tree)[i])) \cap PowNodes = {}

PrintCalls == {n \in Nodes : IsPrintCall(n)}
Specifier(a) == IF _infer_expr_type(a) = DOUBLE THEN "%f" ELSE "%lld"
IsIntegerLiteral(a) == isinstance(a, "Constant") /\ a.kind = "int"
Argument(a) == IF IsIntegerLiteral(a) THEN "(long long)" \o _gen_expr(a) ELSE _gen_expr(a)
RECURSIVE Specifiers(_)
Specifiers(args) ==
    IF Len(args) = 1 THEN Specifier(args[1])
    ELSE Specifier(Head(args)) \o " " \o Specifiers(Tail(args))
RECURSIVE Arguments(_)
Arguments(args) ==
    IF Len(args) = 1 THEN Argument(args[1])
    ELSE Argument(Head(args)) \o ", " \o Arguments(Tail(args))
Printf(n) ==
    IF n.args = <<>> THEN "printf(\"\\n\")"
    ELSE "printf(\"" \o Specifiers(n.args) \o "\\n\", " \o Arguments(n.args) \o ")"

\* C13: the C backend lowers every print call to one printf: with no
\* argument, printf("\n"); with k >= 1, a format of k specifiers separated
\* by single spaces and ended by the newline escape, %f for a FLOAT argument
\* and %lld for any other, then the k arguments in source order, an integer
\* literal cast to (long long).
C13_PrintLowering ==
    CBackend => \A n \in PrintCalls : _gen_expr(n) = Printf(n)

\* The text of print(x, 1, 2.5) with x FLOAT, as emitted.
C13_Witness ==
    /\ CBackend /\ Compiled
    /\ \E i \in 1..Len(lines) :
            lines[i].toks = <<"printf(\"%f %lld %f\\n\", x, (long long)1, 2.5)", ";">>

PlainPow(e) == "pow((double)" \o _gen_expr(e.left) \o ", (double)" \o _gen_expr(e.right) \o ")"
CastPow(e) == "(long long)" \o PlainPow(e)
BothInt(e) == _infer_expr_type(e.left) = INT /\ _infer_expr_type(e.right) = INT
IsDeclarator(l) ==
    Len(l.toks) = 6 /\ l.toks[2] = " " /\ l.toks[4] = " = " /\ l.toks[6] = ";"

\* C14: in the C backend a power expression is emitted with the outer
\* (long long) cast exactly when both operands are INT, which is exactly when
\* it is typed INT; and a declaration initialised by a power expression
\* declares long long when the emitted expression has the cast and double
\* when it has not.
C14_PowCastMatchesDeclaration ==
    CBackend =>
        /\ \A e \in PowNodes :
              /\ _gen_expr(e) = (IF BothInt(e) THEN CastPow(e) ELSE PlainPow(e))
              /\ (_infer_expr_type(e) = INT) <=> BothInt(e)
        /\ \A i \in 1..Len(lines) : \A e \in PowNodes :
              IsDeclarator(lines[i]) =>
                /\ lines[i].toks[5] = CastPow(e) => lines[i].toks[1] = "long long"
                /\ lines[i].toks[5] = PlainPow(e) => lines[i].toks[1] = "double"

RECURSIVE Ascending(_)
\* The members of a set of line numbers, in order.
Ascending(S) ==
    IF S = {} THEN <<>>
    ELSE LET m == CHOOSE i \in S : \A j \in S : i <= j
         IN  <<m>> \o Ascending(S \ {m})
ForwardDeclarations ==
    {i \in 1..Len(lines) :
        /\ lines[i].indent = 0
        /\ Len(lines[i].toks) = 6
        /\ lines[i].toks[4] = "("
        /\ lines[i].toks[6] = ");"}
MainHeaders == {i \in 1..Len(lines) : lines[i].toks = <<"int main() {">>}
NamesAt(S) == [k \in 1..Cardinality(S) |-> lines[Ascending(S)[k]].toks[3]]
SourceNames == [k \in 1..Len(FuncNodes(tree)) |-> FuncNodes(tree)[k].name]

\* The statement class an emitted line opens, "none" for a line that only
\* closes or continues a block.
OpenedBy(l) ==
    CASE l.toks[1] = "if (" -> "If"
      [] l.toks[1] = "while (" -> "While"
      [] l.toks[1] = "for (" \/ l.toks = <<"/* unsupported for-iter */ {">> -> "For"
      [] l.toks[1] = "return " \/ l.toks = <<"return;">> -> "Return"
      [] l.toks = <<"// pass">> -> "Pass"
      [] l.toks = <<"break;">> -> "Break"
      [] l.toks = <<"continue;">> -> "Continue"
      [] Len(l.toks) = 2 /\ l.toks[2] = ";" -> "Expr"
      [] Len(l.toks) = 6 /\ l.toks[4] = "= " -> "AugAssign"
      [] Len(l.toks) = 6 /\ l.toks[4] = " = " -> "Assign"
      [] Len(l.toks) = 4 /\ l.toks[2] = " = " -> "Assign"
      [] OTHER -> "none"
Lowered == {"Assign", "AugAssign", "Expr", "If", "While", "For",
            "Return", "Pass", "Break", "Continue"}
\* An assignment _gen_stmt writes a line for: one with a Name or Subscript
\* target.
HasLoweredTarget(s) ==
    \E i \in 1..Len(s.targets) : s.targets[i].k \in {"Name", "Subscript"}
\* The classes of the module-level statements the emitter lowers, in order.
SourceStatements ==
    LET ss == SelectSeq(TopLevel(tree),
                        LAMBDA s : /\ s.k \in Lowered
                                   /\ isinstance(s, "Assign") => HasLoweredTarget(s))
    IN  [k \in 1..Len(ss) |-> ss[k].k]
\* The classes of the statements of main's body, in order.
MainStatements ==
    LET S == {i \in 1..Len(lines) :
                /\ \E m \in MainHeaders : m < i
                /\ lines[i].indent = 1
                /\ OpenedBy(lines[i]) # "none"}
    IN  [k \in 1..Cardinality(S) |-> OpenedBy(lines[Ascending(S)[k]])]

C15_WitnessMain ==
    /\ CBackend /\ Compiled
    /\ Len(MainStatements) = 3
    /\ Cardinality(SeqToSet(MainStatements)) = 3

-----------------------------------------------------------------------------
(* Properties of the type tables (SpecInfer).                              *)

ProcessingAssign ==
    pc = "infer" /\ todo # <<>> /\ Head(todo).op = "infer"
        /\ isinstance(Head(todo).node, "Assign")

\* C16: the step of the statement pass that processes an assignment leaves
\* every simple-name target x, a parameter of the enclosing function or not,
\* looked up in the assignment's scope, with the inferred type of the
\* assigned expression; and an assignment with no simple-name target
\* (a subscript) changes no table.
C16_AssignmentLookup ==
    [][ProcessingAssign =>
        LET node == Head(todo).node
            typ == _infer_expr_type(node.value)
            names == {node.targets[i].id : i \in
                        {j \in 1..Len(node.targets) : isinstance(node.targets[j], "Name")}}
        IN  /\ \A x \in names : TypeOfVarIn(_current_func, x)' = typ
            /\ names = {} => tables' = tables]_vars

\* The calls of the module, each with the scope it appears in.
CallSites ==
    {[cur |-> NoFunc, call |-> n] :
        n \in UNION {SeqToSet(walk(TopLevel(tree)[i])) : i \in 1..Len(TopLevel(tree))}}
    \cup UNION {{[cur |-> node.name, call |-> n] : n \in SeqToSet(walk(node)) \ {node}} :
                    node \in Definitions}
KnownCalls ==
    {s \in CallSites : IsNamedCall(s.call) /\ s.call.func.id \in DOMAIN func_param_types}

\* C17: once refinement is over, for every call of a known function, at
\* module level or in a function body, the callee's parameter at each
\* position is FLOAT when the argument there, typed in the scope of the
\* call, is FLOAT.
C17_CallSiteRefinement ==
    pc = "inferred" =>
        \A s \in KnownCalls :
            LET ptypes == func_param_types[s.call.func.id]
            IN  \A i \in 1..Len(s.call.args) :
                    i <= Len(ptypes) /\ InferExprTypeIn(s.cur, s.call.args[i]) = DOUBLE
                        => ptypes[i].val = DOUBLE

LocalType(f, x) == DictGet(DictGet(func_local_types, f, EmptyDict), x, INT)
AssignmentsOf(node) == {s \in SeqToSet(walk(node)) : isinstance(s, "Assign")}
ReturnsOf(node) == {s \in SeqToSet(walk(node)) : isinstance(s, "Return") /\ s.value # None}

\* C18: once refinement is over, the tables are a fixpoint of the typing
\* rules: in every function, an assignment of a FLOAT expression to a simple
\* name has that local recorded FLOAT, and a return of a FLOAT expression has
\* the function's return type recorded FLOAT.
C18_Fixpoint ==
    pc = "inferred" =>
        \A node \in Definitions :
            /\ \A s \in AssignmentsOf(node) : \A i \in 1..Len(s.targets) :
                    /\ isinstance(s.targets[i], "Name")
                    /\ InferExprTypeIn(node.name, s.value) = DOUBLE
                    => LocalType(node.name, s.targets[i].id) = DOUBLE
            /\ \A r \in ReturnsOf(node) :
                    InferExprTypeIn(node.name, r.value) = DOUBLE
                    => DictGet(func_return_types, node.name, INT) = DOUBLE

-----------------------------------------------------------------------------
(* Properties of the pipeline and of counted loops (SpecEmit).             *)

PhaseOrder ==
    { <<"infer", "infer">>, <<"infer", "refine">>, <<"refine", "refine">>,
      <<"refine", "inferred">>, <<"inferred", "emit">>, <<"emit", "emit">>,
      <<"emit", "done">>, <<"emit", "error">> }

\* C19: every step goes from inference to refinement to emission, never
\* back and skipping none; no line is emitted while inference or refinement
\* is running; and from the end of refinement on no step changes any of the
\* four tables.
C19_TablesReadOnlyInEmission ==
    [][/\ <<pc, pc'>> \in PhaseOrder
       /\ pc \in {"infer", "refine"} => lines = <<>> /\ lines' = <<>>
       /\ pc \in {"inferred", "emit"} => tables' = tables]_vars

\* A compilation that promoted a parameter and then emitted function text.
C19_Witness ==
    /\ Compiled
    /\ HelperHeaders # {}
    /\ \E f \in DOMAIN func_param_types : \E i \in 1..Len(func_param_types[f]) :
            func_param_types[f][i].val = DOUBLE

CountedLoops ==
    {n \in Nodes : isinstance(n, "For") /\ IsRangeCall(n.iter) /\ Len(n.iter.args) \in 1..3
                    /\ isinstance(n.target, "Name")}
LiterallyNegative(e) ==
    \/ isinstance(e, "Constant") /\ e.kind \in {"int", "float"} /\ e.value < 0
    \/ isinstance(e, "UnaryOp") /\ e.op = "USub" /\ isinstance(e.operand, "Constant")
\* The header the claim gives a counted loop.
LoopHeader(n) ==
    LET a == n.iter.args
        start == IF Len(a) = 1 THEN "0" ELSE _gen_expr(a[1])
        end == IF Len(a) = 1 THEN _gen_expr(a[1]) ELSE _gen_expr(a[2])
        step == IF Len(a) = 3 THEN _gen_expr(a[3]) ELSE "1"
        cmp == IF Len(a) = 3 /\ LiterallyNegative(a[3]) THEN ">" ELSE "<"
        i == n.target.id
    IN  <<"for (", INT, " ", i, " = ", start, "; ", i, " ", cmp, " ", end, "; ",
          i, " += ", step, ") {">>
LoopHeaders == {i \in 1..Len(lines) : lines[i].toks[1] = "for ("}
\* The lines of the block opened by line i.
BlockOf(i) ==
    {j \in (i + 1)..Len(lines) :
        \A m \in (i + 1)..j : lines[m].indent > lines[i].indent}
\* The counted loops the backend emits: all of them in C, those of function
\* bodies in the GPU backend.
EmittedLoops ==
    IF CBackend THEN CountedLoops
    ELSE CountedLoops \cap UNION {SeqToSet(walk(node)) : node \in Definitions}

\* C20: every emitted loop header is the header of a counted loop of the
\* module with (start, end, step) = (0, a0, 1), (a0, a1, 1) or (a0, a1, a2)
\* by arity and the comparator > exactly for a literally negative step;
\* every counted loop of compiled text has its header; and no line of a
\* loop's body declares the loop variable: assignments to it are bare.
C20_ForRangeHeader ==
    /\ \A i \in LoopHeaders :
          /\ \E n \in CountedLoops : lines[i].toks = LoopHeader(n)
          /\ \A j \in BlockOf(i) :
                IsDeclarator(lines[j]) => lines[j].toks[3] # lines[i].toks[4]
    /\ Compiled =>
          \A n \in EmittedLoops : \E i \in LoopHeaders : lines[i].toks = LoopHeader(n)

\* A loop counting down by -1, its variable assigned bare in the body.
C20_Witness ==
    /\ Compiled
    /\ \E i \in LoopHeaders :
          /\ lines[i].toks[10] = ">"
          /\ lines[i].toks[16] = "(-1)"
          /\ i + 1 \in BlockOf(i)
          /\ lines[i + 1].toks = <<"i", " = ", "(i + 1)", ";">>

-----------------------------------------------------------------------------
(* Statements the emitter cannot lower.                                    *)

\* The statement shapes _gen_stmt and _gen_for have no lowering for.
Unsupported(node) ==
    \/ isinstance(node, "For") /\ ~IsRangeCall(node.iter)
    \/ isinstance(node, "Assign")
        /\ \E i \in 1..Len(node.targets) : node.targets[i].k \notin {"Name", "Subscript"}
    \/ node.k \notin {"Assign", "AugAssign", "Expr", "If", "While", "For",
                      "Return", "Pass", "Break", "Continue"}

\* The comments the emitter writes in place of a statement it cannot lower.
SentinelComments == {<<"/* unsupported for-iter */ {">>}

EmittingUnsupported == AtEmit("stmt") /\ Unsupported(Head(todo).node)

\* C21: the handler of a statement the emitter cannot lower does not abort,
\* appends a sentinel comment to the output as its first line, and leaves the
\* statements after it to be emitted.
C21_UnsupportedLeavesSentinel ==
    [][EmittingUnsupported =>
            /\ pc' = "emit"
            /\ Len(lines') > Len(lines)
            /\ lines'[Len(lines) + 1].toks \in SentinelComments
            /\ \E n \in 0..Len(todo') : SubSeq(todo', n + 1, Len(todo')) = Tail(todo)]_vars

-----------------------------------------------------------------------------
(* Braces and indentation of the emitted text (SpecEmit).                  *)

Opens(l) ==
    l.toks[Len(l.toks)] \in {") {", "} else {", "int main() {", "/* unsupported for-iter */ {"}
Closes(l) == l.toks[1] \in {"}", "} else if (", "} else {"}
\* The number of blocks open before line i of the text.
Depth(i) ==
    Cardinality({j \in 1..(i - 1) : Opens(lines[j])})
        - Cardinality({j \in 1..(i - 1) : Closes(lines[j])})
IfLines == {i \in 1..Len(lines) : lines[i].toks[1] = "if ("}
ElseIfLines == {i \in 1..Len(lines) : lines[i].toks[1] = "} else if ("}
SingleIf(orelse) == Len(orelse) = 1 /\ orelse[1].k = "If"

\* The conditionals of a body that open a chain, and those that continue
\* one (the sole statement of an else branch), bodies of loops included.
RECURSIVE OpeningIfs(_)
RECURSIVE ContinuingIfs(_)
OpeningIfs(body) ==
    IF body = <<>> THEN 0
    ELSE LET s == Head(body)
             RECURSIVE InChain(_)
             InChain(n) == OpeningIfs(n.body)
                            + (IF SingleIf(n.orelse) THEN InChain(n.orelse[1])
                                                     ELSE OpeningIfs(n.orelse))
         IN  (CASE s.k = "If" -> 1 + InChain(s)
                [] s.k \in {"While", "For"} -> OpeningIfs(s.body)
                [] OTHER -> 0)
             + OpeningIfs(Tail(body))
ContinuingIfs(body) ==
    IF body = <<>> THEN 0
    ELSE LET s == Head(body)
             RECURSIVE InChain(_)
             InChain(n) == ContinuingIfs(n.body)
                            + (IF SingleIf(n.orelse) THEN 1 + InChain(n.orelse[1])
                                                     ELSE ContinuingIfs(n.orelse))
         IN  (CASE s.k = "If" -> InChain(s)
                [] s.k \in {"While", "For"} -> ContinuingIfs(s.body)
                [] OTHER -> 0)
             + ContinuingIfs(Tail(body))
\* The statements the back end emits: the bodies of the top-level functions
\* and, in C, the module-level statements.
EmittedBody ==
    Concat([i \in 1..Len(FuncNodes(tree)) |-> FuncNodes(tree)[i].body])
        \o (IF CBackend THEN TopLevel(tree) ELSE <<>>)

\* C22: the indentation counter is never negative; and in the compiled text
\* every line is indented by the number of blocks open at it, no block is
\* closed that was not opened and none is left open, the counter is back at
\* its initial value, an `} else if` line stands at the indentation of the
\* `if` or `} else if` line of its chain before it, and the text has one
\* `} else if` line per conditional that is the sole statement of an else
\* branch and one `if` line per other conditional.
C22_IfElseBalanced ==
    /\ indent >= 0
    /\ Compiled =>
        /\ indent = 0
        /\ Depth(Len(lines) + 1) = 0
        /\ \A i \in 1..Len(lines) :
            /\ lines[i].indent >= 0
            /\ lines[i].indent = Depth(i) - (IF Closes(lines[i]) THEN 1 ELSE 0)
        /\ \A i \in ElseIfLines :
            \E j \in 1..(i - 1) :
                /\ lines[j].indent = lines[i].indent
                /\ lines[j].toks[1] \in {"if (", "} else if ("}
                /\ \A m \in (j + 1)..(i - 1) : lines[m].indent > lines[i].indent
        /\ Cardinality(IfLines) = OpeningIfs(EmittedBody)
        /\ Cardinality(ElseIfLines) = ContinuingIfs(EmittedBody)

\* A compiled if / elif / elif / else chain with a conditional nested in the
\* first body.
C22_Witness ==
    /\ Compiled
    /\ \E i, j, k, e \in 1..Len(lines) :
        /\ i < j /\ j < k /\ k < e
        /\ lines[i].toks[1] = "if ("
        /\ lines[i + 1].toks[1] = "if (" /\ lines[i + 1].indent = lines[i].indent + 1
        /\ j \in ElseIfLines /\ k \in ElseIfLines
        /\ lines[e].toks = <<"} else {">>
        /\ {lines[j].indent, lines[k].indent, lines[e].indent} = {lines[i].indent}
        /\ \A m \in i..e : lines[m].indent >= lines[i].indent

-----------------------------------------------------------------------------
(* The declared names of each emitted unit (SpecEmit).                     *)

\* The units the back end emits, in order: name, parameters and body.
UnitOf(node) ==
    [name |-> node.name, params |-> SeqToSet(ArgNames(node)), body |-> node.body]
EmittedUnits ==
    IF CBackend
        THEN [i \in 1..Len(FuncNodes(tree)) |-> UnitOf(FuncNodes(tree)[i])]
                \o <<[name |-> NoFunc, params |-> {}, body |-> TopLevel(tree)]>>
        ELSE [i \in 1..Len(Helpers(tree) \o Kernels(tree)) |->
                UnitOf((Helpers(tree) \o Kernels(tree))[i])]
UnitHeaders == {i \in 1..Len(lines) : IsUnitHeader(lines[i])}
\* The line that ends the header of the unit being emitted is the last line.
JustEntered ==
    /\ pc = "emit"
    /\ UnitHeaders # {}
    /\ LET h == Ascending(UnitHeaders)[Cardinality(UnitHeaders)]
       IN  Len(lines) = (IF lines[h].toks[1] = "kernel void " THEN h + 2 ELSE h)
BetweenUnits == AtEmit("function") \/ AtEmit("kernel") \/ AtEmit("main")
\* The lines of the k-th unit of the text.
UnitLines(k) ==
    LET hs == Ascending(UnitHeaders)
    IN  (hs[k] + 1)..(IF k < Len(hs) THEN hs[k + 1] - 1 ELSE Len(lines))
DeclaratorsOf(R, name) ==
    {i \in R : /\ Len(lines[i].toks) = 6
               /\ lines[i].toks[2] = " "
               /\ lines[i].toks[3] = name
               /\ lines[i].toks[4] = " = "
               /\ lines[i].toks[6] = ";"}
BareAssignmentsOf(R, name) ==
    {i \in R : /\ Len(lines[i].toks) = 4
               /\ lines[i].toks[1] = name
               /\ lines[i].toks[2] = " = "
               /\ lines[i].toks[4] = ";"}
ForDeclaratorsOf(R, name) == {i \in R : lines[i].toks[1] = "for (" /\ lines[i].toks[4] = name}
AssignedNames(body) ==
    UNION {{s.targets[i].id : i \in {i \in 1..Len(s.targets) : s.targets[i].k = "Name"}} :
            s \in {n \in SeqToSet(walk(Module(body))) : n.k = "Assign"}}

\* C23: right after the header of a function, kernel or main the declared
\* names are exactly the unit's parameters and the current-function marker
\* is its name; between units both are what they were before the first unit
\* (empty, none); and in the compiled text, within each unit, no parameter
\* has a declarator by assignment, and the first line that assigns or
\* declares another name, if an assignment, is its declarator, whatever the
\* other units declared.
C23_FunctionScopes ==
    /\ JustEntered =>
        LET u == EmittedUnits[Cardinality(UnitHeaders)]
        IN  _declared_vars = u.params /\ _current_func = u.name
    /\ BetweenUnits => _declared_vars = {} /\ _current_func = NoFunc
    /\ Compiled =>
        /\ Cardinality(UnitHeaders) = Len(EmittedUnits)
        /\ \A k \in 1..Len(EmittedUnits) :
            \A name \in AssignedNames(EmittedUnits[k].body) :
                LET decl == DeclaratorsOf(UnitLines(k), name)
                    bare == BareAssignmentsOf(UnitLines(k), name)
                    loop == ForDeclaratorsOf(UnitLines(k), name)
                IN  IF name \in EmittedUnits[k].params THEN decl = {}
                    ELSE \A i \in bare : \E j \in decl \cup loop : j < i

\* Two compiled units after a first one: the second assigns its parameter x
\* bare and declares a, the third declares x and a again.
C23_Witness ==
    /\ Compiled
    /\ Len(EmittedUnits) = 3
    /\ "x" \in EmittedUnits[2].params
    /\ BareAssignmentsOf(UnitLines(2), "x") # {} /\ DeclaratorsOf(UnitLines(2), "a") # {}
    /\ DeclaratorsOf(UnitLines(1), "x") # {}
    /\ DeclaratorsOf(UnitLines(3), "x") # {} /\ DeclaratorsOf(UnitLines(3), "a") # {}

-----------------------------------------------------------------------------
(* Declared types against assigned types (SpecEmit).                       *)

\* The assignments to `name` among the statements of a unit's body.
AssignmentsTo(body, name) ==
    {s \in SeqToSet(walk(Module(body))) :
        /\ s.k = "Assign"
        /\ \E i \in 1..Len(s.targets) : s.targets[i].k = "Name" /\ s.targets[i].id = name}

\* C28: in the compiled text the type of every declarator by assignment is
\* FLOAT if some expression assigned to the name in the same unit is
\* inferred FLOAT, whatever the order of the assignments.
C28_DeclaredTypeCoversAssigned ==
    Compiled =>
        \A k \in 1..Len(EmittedUnits) :
            LET u == EmittedUnits[k]
            IN  \A name \in AssignedNames(u.body) \ u.params :
                    \A i \in DeclaratorsOf(UnitLines(k), name) :
                        \A s \in AssignmentsTo(u.body, name) :
                            InferExprTypeIn(u.name, s.value) = DOUBLE
                                => lines[i].toks[1] = DOUBLE

-----------------------------------------------------------------------------
(* Declarators against the blocks of the text (SpecEmit).                  *)

AugAssignmentsOf(R, name) ==
    {i \in R : /\ Len(lines[i].toks) = 6
               /\ lines[i].toks[1] = name
               /\ lines[i].toks[2] = " "
               /\ lines[i].toks[4] = "= "
               /\ lines[i].toks[6] = ";"}
\* The names a unit's body stores to, by assignment or augmented assignment.
StoredNames(body) ==
    AssignedNames(body)
        \cup {s.target.id : s \in {n \in SeqToSet(walk(Module(body))) :
                                      n.k = "AugAssign" /\ n.target.k = "Name"}}
\* Line i is in the block that the declarator on line j declares into: the
\* block holding an assignment's declarator, the body of a for header.
InScopeOf(i, j) ==
    /\ j < i
    /\ \A m \in (j + 1)..i :
        IF lines[j].toks[1] = "for (" THEN lines[m].indent > lines[j].indent
                                      ELSE lines[m].indent >= lines[j].indent

\* C29: in the compiled text every bare assignment and every augmented
\* assignment to a name that is not a parameter of its unit comes after a
\* declarator of the name whose block is still open at it.
C29_StoresFollowDeclarator ==
    Compiled =>
        \A k \in 1..Len(EmittedUnits) :
            LET u == EmittedUnits[k]
                R == UnitLines(k)
            IN  \A name \in StoredNames(u.body) \ u.params :
                    \A i \in BareAssignmentsOf(R, name) \cup AugAssignmentsOf(R, name) :
                        \E j \in DeclaratorsOf(R, name) \cup ForDeclaratorsOf(R, name) :
                            InScopeOf(i, j)

-----------------------------------------------------------------------------
(* Properties of the interpreter (SpecInterp, SpecInterpLive).             *)

Returned == pc = "done"
Fibonacci == <<"0", "1", "1", "2", "3", "5", "8", "13", "21", "34", "55", "89">>

\* C24: run on the demo program of entry.py returns, without an exception,
\* having printed the Fibonacci numbers below 100, one per line and nothing
\* else.
C24_DemoPrintsFibonacci ==
    tree = Demo => <>(Returned /\ exception = "none" /\ stdout = Fibonacci)

\* The demo has returned after its twelfth line.
C24_Witness == tree = Demo /\ Returned /\ Len(stdout) = 12 /\ stdout[12] = "89"

\* The statement about to execute calls, as its whole value, a user function
\* with a number of arguments other than the number of its parameters.
WrongArityCall ==
    /\ AtRun("exec")
    /\ LET node == Head(todo).node
           env == Head(todo).env
       IN  /\ node.k \in {"Expr", "Assign", "Return"}
           /\ node.value.k = "Call"
           /\ node.value.func.k = "Name"
           /\ LET func == get(envs, env, node.value.func.id)
              IN  /\ func.exc = "none"
                  /\ func.value.t = "Function"
                  /\ Len(node.value.args) # Len(func.value.params)

C30_LoopSignalsStayInside == exception \notin {"_BreakSignal", "_ContinueSignal"}

-----------------------------------------------------------------------------
(* The C text against the interpreter (SpecEmit).                          *)

\* Integer division and remainder of the C target: the quotient truncated
\* towards zero, and the remainder a - (a / b) * b.
TruncDiv(a, b) ==
    LET abs(n) == IF n < 0 THEN 0 - n ELSE n
    IN  (IF (a < 0) = (b < 0) THEN 1 ELSE 0 - 1) * (abs(a) \div abs(b))
TruncRem(a, b) == a - TruncDiv(a, b) * b
\* The text of an integer literal of the source.
LiteralText(n) == IF n < 0 THEN "(-" \o ToString(0 - n) \o ")" ELSE ToString(n)
DeclaresAs(name, text) ==
    \E i \in 1..Len(lines) : lines[i] = Line(1, <<"long long", " ", name, " = ", text, ";">>)

\* C26: for all integers a and b, b not zero, the C text of q = a // b and
\* r = a % b over variables holding a and b is `(a / b)` and `(a % b)`, and
\* what these compute in C is what the interpreter computes for a // b and
\* a % b.
C26_FloorDivModAgree ==
    CBackend /\ Compiled =>
        \A a, b \in Operand :
            b # 0 /\ tree = DivMod(a, b) =>
                /\ DeclaresAs("a", LiteralText(a)) /\ DeclaresAs("b", LiteralText(b))
                /\ DeclaresAs("q", "(a / b)") /\ DeclaresAs("r", "(a % b)")
                /\ TruncDiv(a, b) = _apply_op("FloorDiv", IntV(a), IntV(b)).value.v
                /\ TruncRem(a, b) = _apply_op("Mod", IntV(a), IntV(b)).value.v

\* The operator symbols of the C target, and what a comparison yields there.
CSymbol(op) ==
    CASE op = "Lt" -> "<" [] op = "LtE" -> "<=" [] op = "Gt" -> ">" [] op = "GtE" -> ">="
      [] op = "Eq" -> "==" [] op = "NotEq" -> "!="
CCompare(op, x, y) ==
    LET holds == CASE op = "Lt" -> x < y [] op = "LtE" -> x <= y [] op = "Gt" -> x > y
                   [] op = "GtE" -> x >= y [] op = "Eq" -> x = y [] op = "NotEq" -> x # y
    IN  IF holds THEN 1 ELSE 0
\* `(a op1 b op2 c)` as C reads it: ((a op1 b) op2 c).
CReading(a, b, c, ops) == CCompare(ops[2], CCompare(ops[1], a, b), c)
\* An environment binding a, b and c.
Bound(a, b, c) ==
    <<[vars |-> <<[key |-> "a", val |-> IntV(a)], [key |-> "b", val |-> IntV(b)],
                  [key |-> "c", val |-> IntV(c)]>>,
       parent |-> 0]>>

\* C27: the C text of a comparison chain is one pair of parentheses around
\* its operands and operator symbols in source order, for one, two and
\* three operators; and for all integers a, b and c, `(a op1 b op2 c)` as C
\* reads it is true exactly when the interpreter's value of the chain is.
C27_ChainAgrees ==
    CBackend /\ Compiled =>
        /\ tree = Module(<<Store("r", Compare(IntC(1), <<"Lt">>, <<IntC(2)>>))>>)
            => DeclaresAs("r", "(1 < 2)")
        /\ tree = Module(<<Store("r", Compare(IntC(0), <<"LtE", "Lt", "GtE">>,
                                              <<IntC(1), IntC(2), IntC(1)>>))>>)
            => DeclaresAs("r", "(0 <= 1 < 2 >= 1)")
        /\ \A a, b, c \in ChainOperand : \A ops \in ChainOps :
            tree = Chain(a, b, c, ops) =>
                /\ DeclaresAs("r", "(a " \o CSymbol(ops[1]) \o " b "
                                        \o CSymbol(ops[2]) \o " c)")
                /\ (CReading(a, b, c, ops) # 0)
                    = Truthy(_eval(Bound(a, b, c),
                                   Compare(Load("a"), ops, <<Load("b"), Load("c")>>),
                                   1).value)

====
